---- MODULE Spec2Model ----
(***************************************************************************)
(* Pinpoint selector engine: shadow-piercing path builder                  *)
(* (modules/shadow-pierce.js), light-DOM resolver and memoizing facade     *)
(* (modules/selector-engine.js), over a small DOM.                         *)
(*                                                                         *)
(* Strings are sequences of one-character strings, so that escaping,       *)
(* joining, splitting and selector parsing are computed, not assumed.      *)
(***************************************************************************)
EXTENDS Integers, Sequences, FiniteSets, TLC

VARIABLES dom, selectorCache, formatCache, call, domChanges, S,
          activeTabs, injectedTabs, processingTabs, connectedPorts, stateInitialized,
          storage, handlers, events, tab

\* the page and its content script
pageVars == <<dom, selectorCache, formatCache, call, domChanges, S>>

\* the background service worker, the browser's tabs and session storage
workerVars == <<activeTabs, injectedTabs, processingTabs, connectedPorts,
                stateInitialized, storage, handlers, events, tab>>

vars == <<dom, selectorCache, formatCache, call, domChanges, S, workerVars>>

(***************************************************************************)
(* Characters and strings                                                  *)
(***************************************************************************)
Digits == <<"0", "1", "2", "3", "4", "5", "6", "7", "8", "9">>

UpperLetters == <<"A", "B", "C", "D", "E", "F", "G", "H", "I", "J", "K", "L", "M",
                  "N", "O", "P", "Q", "R", "S", "T", "U", "V", "W", "X", "Y", "Z">>

LowerLetters == <<"a", "b", "c", "d", "e", "f", "g", "h", "i", "j", "k", "l", "m",
                  "n", "o", "p", "q", "r", "s", "t", "u", "v", "w", "x", "y", "z">>

Range(s) == {s[i] : i \in DOMAIN s}

DigitSet == Range(Digits)

HexSet == DigitSet \cup {"a", "b", "c", "d", "e", "f", "A", "B", "C", "D", "E", "F"}

IsWs(c) == c = " "

\* [a-zA-Z0-9_-]: the characters CSS.escape leaves alone
IsNameChar(c) ==
  c \in Range(UpperLetters) \/ c \in Range(LowerLetters) \/ c \in DigitSet \/ c = "-" \/ c = "_"

\* String.prototype.toLowerCase
toLowerCase(s) ==
  [i \in DOMAIN s |->
     IF s[i] \in Range(UpperLetters)
       THEN LowerLetters[CHOOSE k \in DOMAIN UpperLetters : UpperLetters[k] = s[i]]
       ELSE s[i]]

\* String.prototype.startsWith
startsWith(s, p) == Len(s) >= Len(p) /\ SubSeq(s, 1, Len(p)) = p

RECURSIVE TrimStart(_)
TrimStart(s) == IF s # <<>> /\ IsWs(Head(s)) THEN TrimStart(Tail(s)) ELSE s

RECURSIVE TrimEnd(_)
TrimEnd(s) ==
  IF s # <<>> /\ IsWs(s[Len(s)]) THEN TrimEnd(SubSeq(s, 1, Len(s) - 1)) ELSE s

\* String.prototype.trim
trim(s) == TrimEnd(TrimStart(s))

\* s.split(/\s+/): pieces between maximal runs of whitespace
RECURSIVE SplitWsFrom(_, _, _, _)
SplitWsFrom(s, i, cur, acc) ==
  IF i > Len(s) THEN Append(acc, cur)
  ELSE IF IsWs(s[i])
    THEN IF i > 1 /\ IsWs(s[i - 1])
           THEN SplitWsFrom(s, i + 1, cur, acc)
           ELSE SplitWsFrom(s, i + 1, <<>>, Append(acc, cur))
    ELSE SplitWsFrom(s, i + 1, Append(cur, s[i]), acc)

splitWs(s) == SplitWsFrom(s, 1, <<>>, <<>>)

\* s.split(sep) for a non-empty separator
RECURSIVE SplitFrom(_, _, _, _, _)
SplitFrom(s, sep, i, cur, acc) ==
  IF i > Len(s) THEN Append(acc, cur)
  ELSE IF i + Len(sep) - 1 <= Len(s) /\ SubSeq(s, i, i + Len(sep) - 1) = sep
    THEN SplitFrom(s, sep, i + Len(sep), <<>>, Append(acc, cur))
    ELSE SplitFrom(s, sep, i + 1, Append(cur, s[i]), acc)

split(s, sep) == SplitFrom(s, sep, 1, <<>>, <<>>)

\* Array.prototype.join
RECURSIVE join(_, _)
join(parts, sep) ==
  IF parts = <<>> THEN <<>>
  ELSE IF Len(parts) = 1 THEN parts[1]
  ELSE parts[1] \o sep \o join(Tail(parts), sep)

\* decimal rendering of a template-literal number
RECURSIVE IntToStr(_)
IntToStr(n) ==
  IF n < 10 THEN <<Digits[n + 1]>>
  ELSE IntToStr(n \div 10) \o <<Digits[(n % 10) + 1]>>

RECURSIVE StrToInt(_, _)
StrToInt(s, acc) ==
  IF s = <<>> THEN acc ELSE StrToInt(Tail(s), acc * 10 + (CHOOSE d \in 0..9 : Digits[d + 1] = Head(s)))

\* `const v = ...` followed by the statements F that use v
Const(v, F(_)) == F(v)

(***************************************************************************)
(* CSS.escape (CSSOM serialize-an-identifier) over the model's characters  *)
(***************************************************************************)
Backslash == "\\"

Quote == "\""

EscapeChar(s, i) ==
  IF s[i] \in DigitSet /\ (i = 1 \/ (i = 2 /\ s[1] = "-"))
    THEN <<Backslash, "3", s[i], " ">>
  ELSE IF i = 1 /\ Len(s) = 1 /\ s[i] = "-" THEN <<Backslash, s[i]>>
  ELSE IF IsNameChar(s[i]) THEN <<s[i]>>
  ELSE <<Backslash, s[i]>>

RECURSIVE EscapeFrom(_, _)
EscapeFrom(s, i) ==
  IF i > Len(s) THEN <<>> ELSE EscapeChar(s, i) \o EscapeFrom(s, i + 1)

CssEscape(s) == EscapeFrom(s, 1)

(***************************************************************************)
(* The selector grammar of querySelector / querySelectorAll, restricted to *)
(* the forms the engine emits: type, #id, .class, [name="value"],          *)
(* :nth-of-type(k), joined by descendant and child combinators.  Anything  *)
(* else (e.g. the :has-text pseudo-class) is a SyntaxError.                *)
(***************************************************************************)
ParseFail == [ok |-> FALSE]

RECURSIVE HexEnd(_, _, _)
HexEnd(s, i, n) ==
  IF n < 6 /\ i + 1 <= Len(s) /\ s[i + 1] \in HexSet THEN HexEnd(s, i + 1, n + 1) ELSE i

\* s[i] is a backslash; a hexadecimal escape stands for its code point
ReadEscape(s, i) ==
  IF i + 1 > Len(s) THEN ParseFail
  ELSE IF s[i + 1] \in HexSet
    THEN Const(HexEnd(s, i + 1, 1), LAMBDA e :
           [ok |-> TRUE,
            ch |-> IF e = i + 2 /\ s[i + 1] = "3" /\ s[e] \in DigitSet THEN s[e]
                   ELSE IF SubSeq(s, i + 1, e) = <<"2", "0">> THEN " "
                   ELSE IF SubSeq(s, i + 1, e) = <<"2", "e">> THEN "."
                   ELSE "?",
            next |-> IF e + 1 <= Len(s) /\ IsWs(s[e + 1]) THEN e + 2 ELSE e + 1])
    ELSE [ok |-> TRUE, ch |-> s[i + 1], next |-> i + 2]

\* characters up to `stop` (a quote for a <string-token>, "" for an <ident-token>,
\* which ends at the first character that is neither a name character nor an escape)
RECURSIVE ReadChars(_, _, _, _)
ReadChars(s, i, acc, stop) ==
  IF i > Len(s)
    THEN (IF stop = "" THEN [ok |-> TRUE, val |-> acc, next |-> i] ELSE ParseFail)
  ELSE IF stop # "" /\ s[i] = stop THEN [ok |-> TRUE, val |-> acc, next |-> i + 1]
  ELSE IF s[i] = Backslash
    THEN Const(ReadEscape(s, i), LAMBDA e :
           IF e.ok THEN ReadChars(s, e.next, Append(acc, e.ch), stop) ELSE ParseFail)
  ELSE IF stop # "" \/ IsNameChar(s[i]) THEN ReadChars(s, i + 1, Append(acc, s[i]), stop)
  ELSE [ok |-> TRUE, val |-> acc, next |-> i]

\* an <ident-token> starting at position i
ReadIdent(s, i) ==
  IF i > Len(s) THEN ParseFail
  ELSE IF s[i] \in DigitSet THEN ParseFail
  ELSE IF s[i] = "-" /\ (i = Len(s) \/ ~(IsNameChar(s[i + 1]) \/ s[i + 1] = Backslash)
                         \/ s[i + 1] \in DigitSet)
    THEN ParseFail
  ELSE Const(ReadChars(s, i, <<>>, ""), LAMBDA r : IF r.ok /\ r.next > i THEN r ELSE ParseFail)

\* ="value"] after the attribute name n of [name="value"]
ReadAttr(s, n) ==
  IF n.next + 1 > Len(s) \/ s[n.next] # "=" \/ s[n.next + 1] # Quote THEN ParseFail
  ELSE Const(ReadChars(s, n.next + 2, <<>>, Quote), LAMBDA v :
         IF ~v.ok \/ v.next > Len(s) \/ s[v.next] # "]" THEN ParseFail
         ELSE [ok |-> TRUE, kind |-> "attr", val |-> [name |-> n.val, value |-> v.val],
               next |-> v.next + 1])

RECURSIVE DigitsEnd(_, _)
DigitsEnd(s, i) == IF i <= Len(s) /\ s[i] \in DigitSet THEN DigitsEnd(s, i + 1) ELSE i

\* (k) after the pseudo-class name n; only :nth-of-type(k) is known
ReadPseudo(s, n) ==
  IF \/ n.val # <<"n", "t", "h", "-", "o", "f", "-", "t", "y", "p", "e">>
     \/ n.next > Len(s)
     \/ s[n.next] # "("
    THEN ParseFail
  ELSE Const(DigitsEnd(s, n.next + 1), LAMBDA e :
         IF e = n.next + 1 \/ e > Len(s) \/ s[e] # ")" THEN ParseFail
         ELSE [ok |-> TRUE, kind |-> "nth", val |-> StrToInt(SubSeq(s, n.next + 1, e - 1), 0),
               next |-> e + 1])

\* one <subclass-selector> at position i: #id, .class, [name="value"] or :nth-of-type(k)
ReadSubclass(s, i) ==
  Const(ReadIdent(s, i + 1), LAMBDA n :
    IF ~n.ok THEN ParseFail
    ELSE IF s[i] = "#" THEN [ok |-> TRUE, kind |-> "id", val |-> n.val, next |-> n.next]
    ELSE IF s[i] = "." THEN [ok |-> TRUE, kind |-> "class", val |-> n.val, next |-> n.next]
    ELSE IF s[i] = "[" THEN ReadAttr(s, n)
    ELSE ReadPseudo(s, n))

AddSubclass(comp, r) ==
  [tag |-> comp.tag,
   ids |-> IF r.kind = "id" THEN Append(comp.ids, r.val) ELSE comp.ids,
   classes |-> IF r.kind = "class" THEN Append(comp.classes, r.val) ELSE comp.classes,
   attrs |-> IF r.kind = "attr" THEN Append(comp.attrs, r.val) ELSE comp.attrs,
   nths |-> IF r.kind = "nth" THEN Append(comp.nths, r.val) ELSE comp.nths]

RECURSIVE ReadSubclasses(_, _, _)
ReadSubclasses(s, i, comp) ==
  IF i > Len(s) \/ s[i] \notin {"#", ".", "[", ":"} THEN [ok |-> TRUE, comp |-> comp, next |-> i]
  ELSE Const(ReadSubclass(s, i), LAMBDA r :
         IF r.ok THEN ReadSubclasses(s, r.next, AddSubclass(comp, r)) ELSE ParseFail)

\* a <compound-selector> starting at position i: an optional type, then subclasses
ReadCompound(s, i) ==
  IF i > Len(s) THEN ParseFail
  ELSE Const(IF s[i] \in {"#", ".", "[", ":"} THEN [ok |-> TRUE, val |-> <<>>, next |-> i]
             ELSE ReadIdent(s, i),
             LAMBDA t :
               IF t.ok
                 THEN ReadSubclasses(s, t.next,
                        [tag |-> toLowerCase(t.val), ids |-> <<>>, classes |-> <<>>,
                         attrs |-> <<>>, nths |-> <<>>])
                 ELSE ParseFail)

RECURSIVE SkipWs(_, _)
SkipWs(s, i) == IF i <= Len(s) /\ IsWs(s[i]) THEN SkipWs(s, i + 1) ELSE i

\* the combinator after a compound that ended at position i, and where the next
\* compound starts
ReadCombinator(s, i) ==
  Const(SkipWs(s, i), LAMBDA j :
    IF j <= Len(s) /\ s[j] = ">" THEN [ok |-> TRUE, comb |-> ">", next |-> SkipWs(s, j + 1)]
    ELSE IF j > i THEN [ok |-> TRUE, comb |-> " ", next |-> j]
    ELSE ParseFail)

\* a <complex-selector>: compounds with the combinator that precedes each
RECURSIVE ReadComplex(_, _, _, _)
ReadComplex(s, i, comb, acc) ==
  Const(ReadCompound(s, i), LAMBDA r :
    IF ~r.ok THEN ParseFail
    ELSE IF r.next > Len(s)
      THEN [ok |-> TRUE, steps |-> Append(acc, [comb |-> comb, comp |-> r.comp])]
    ELSE Const(ReadCombinator(s, r.next), LAMBDA c :
           IF c.ok
             THEN ReadComplex(s, c.next, c.comb, Append(acc, [comb |-> comb, comp |-> r.comp]))
             ELSE ParseFail))

\* ok = FALSE stands for the SyntaxError the DOM throws
ParseSelector(sel) ==
  Const(trim(sel), LAMBDA s : IF s = <<>> THEN ParseFail ELSE ReadComplex(s, 1, "", <<>>))

(***************************************************************************)
(* The DOM.  dom[n] is element n: tagName, id, className, the data-* and   *)
(* aria attributes in declaration order, direct text, parentElement        *)
(* (0 = null), host (the host of the shadow root that is n's parent node,  *)
(* 0 = none) and shadowRoot (n has an open shadow root attached).          *)
(* HTML is document.documentElement, BODY is document.body; siblings are   *)
(* in document order by element number.                                    *)
(***************************************************************************)
HTML == 1

BODY == 2

Nodes == DOMAIN dom

Null == <<"null">>

Document == [kind |-> "document", node |-> 0]

ShadowRootOf(h) == [kind |-> "shadow", node |-> h]

RECURSIVE SortedSeq(_)
SortedSeq(set) ==
  IF set = {} THEN <<>>
  ELSE LET m == CHOOSE x \in set : \A y \in set : x <= y IN <<m>> \o SortedSeq(set \ {m})

\* Element.children / ShadowRoot.children
ElementChildren(p) == SortedSeq({c \in Nodes : dom[c].parent = p})

ShadowChildren(h) == SortedSeq({c \in Nodes : dom[c].host = h})

RECURSIVE Top(_)
Top(n) == IF dom[n].parent = 0 THEN n ELSE Top(dom[n].parent)

\* Node.getRootNode(): the document, a shadow root, or the top of a detached tree
getRootNode(n) ==
  Const(Top(n), LAMBDA t :
    IF dom[t].host # 0 THEN ShadowRootOf(dom[t].host)
    ELSE IF t = HTML THEN Document
    ELSE [kind |-> "element", node |-> t])

IsShadowRoot(root) == root.kind = "shadow"

RECURSIVE Preorder(_)
RECURSIVE PreorderAll(_)
Preorder(n) == <<n>> \o PreorderAll(ElementChildren(n))
PreorderAll(ns) == IF ns = <<>> THEN <<>> ELSE Preorder(Head(ns)) \o PreorderAll(Tail(ns))

\* the elements a query on root ranges over, in tree order
ElementsIn(root) ==
  PreorderAll(IF root.kind = "document" THEN <<HTML>>
              ELSE IF root.kind = "shadow" THEN ShadowChildren(root.node)
              ELSE ElementChildren(root.node))

\* first element of a sequence, or the given default
FirstOr(seq, default) == IF seq = <<>> THEN default ELSE seq[1]

\* Element.getAttribute
getAttribute(n, name) ==
  FirstOr(SelectSeq(dom[n].attrs, LAMBDA a : a.name = name), [value |-> Null]).value

\* falsy string values: null, undefined and ''
Falsy(v) == v = Null \/ v = <<>>

\* el.className.trim().split(/\s+/)
ClassTokens(n) == splitWs(trim(dom[n].className))

lowerTag(n) == toLowerCase(dom[n].tagName)

\* the sibling list an element's :nth-of-type index is counted in
Siblings(n) ==
  IF dom[n].parent # 0 THEN ElementChildren(dom[n].parent)
  ELSE IF dom[n].host # 0 THEN ShadowChildren(dom[n].host)
  ELSE <<n>>

\* Array.prototype.indexOf, 1-based; 0 when absent
IndexOf(seq, x) ==
  IF \E i \in DOMAIN seq : seq[i] = x
    THEN CHOOSE i \in DOMAIN seq : seq[i] = x /\ \A j \in 1..(i - 1) : seq[j] # x
    ELSE 0

SameTag(seq, tag) == SelectSeq(seq, LAMBDA c : lowerTag(c) = tag)

TypeIndex(n) == IndexOf(SameTag(Siblings(n), lowerTag(n)), n)

MatchesCompound(n, c) ==
  /\ c.tag = <<>> \/ c.tag = lowerTag(n)
  /\ \A i \in DOMAIN c.ids : c.ids[i] = dom[n].id
  /\ \A i \in DOMAIN c.classes : c.classes[i] \in Range(ClassTokens(n))
  /\ \A i \in DOMAIN c.attrs : getAttribute(n, c.attrs[i].name) = c.attrs[i].value
  /\ \A i \in DOMAIN c.nths : c.nths[i] = TypeIndex(n)

RECURSIVE Ancestors(_)
Ancestors(n) == IF dom[n].parent = 0 THEN {} ELSE {dom[n].parent} \cup Ancestors(dom[n].parent)

\* right-to-left matching of a complex selector; combinators never cross a
\* shadow boundary because they follow parentElement only
RECURSIVE MatchesSteps(_, _, _)
MatchesSteps(n, steps, k) ==
  /\ MatchesCompound(n, steps[k].comp)
  /\ \/ k = 1
     \/ /\ k > 1
        /\ \E a \in IF steps[k].comb = ">" THEN {dom[n].parent} \ {0} ELSE Ancestors(n) :
             MatchesSteps(a, steps, k - 1)

\* root.querySelectorAll(sel): threw = TRUE stands for the SyntaxError
querySelectorAll(root, sel) ==
  Const(ParseSelector(sel), LAMBDA p :
    IF ~p.ok THEN [threw |-> TRUE, list |-> <<>>]
    ELSE [threw |-> FALSE,
          list |-> SelectSeq(ElementsIn(root),
                             LAMBDA n : MatchesSteps(n, p.steps, Len(p.steps)))])

\* root.querySelector(sel): first match in tree order, 0 = null
querySelector(root, sel) ==
  Const(querySelectorAll(root, sel), LAMBDA r : [threw |-> r.threw, el |-> FirstOr(r.list, 0)])

(***************************************************************************)
(* String literals of the source                                           *)
(***************************************************************************)
S_aria_label == <<"a", "r", "i", "a", "-", "l", "a", "b", "e", "l">>

S_role == <<"r", "o", "l", "e">>

S_aria_describedby == <<"a", "r", "i", "a", "-", "d", "e", "s", "c", "r", "i", "b", "e", "d", "b", "y">>

S_arrow == <<" ", ">", ">", " ">>

S_pierce == <<"p", "i", "e", "r", "c", "e", "/">>

S_nth_open == <<":", "n", "t", "h", "-", "o", "f", "-", "t", "y", "p", "e", "(">>

S_child == <<" ", ">", " ">>

ARIA_ATTRS_PIERCE == <<S_aria_label, S_role, S_aria_describedby>>

\* `[${name}="${CSS.escape(value)}"]`
AttrSelector(name, value) == <<"[">> \o name \o <<"=", Quote>> \o CssEscape(value) \o <<Quote, "]">>

(***************************************************************************)
(* modules/shadow-pierce.js                                                *)
(***************************************************************************)
isUniqueSelectorInRoot(sel, root) ==
  Const(querySelectorAll(root, sel), LAMBDA r : IF r.threw THEN FALSE ELSE Len(r.list) = 1)

buildNthChildSelector(el) ==
  Const(lowerTag(el), LAMBDA tag :
    IF dom[el].parent = 0 THEN tag
    ELSE Const(SameTag(ElementChildren(dom[el].parent), tag), LAMBDA siblings :
           IF Len(siblings) = 1 THEN tag
           ELSE tag \o S_nth_open \o IntToStr(IndexOf(siblings, el)) \o <<")">>))

\* first candidate of a tier that passes the probe in root, Null if none
RECURSIVE FirstUniqueInRoot(_, _)
FirstUniqueInRoot(cands, root) ==
  IF cands = <<>> THEN Null
  ELSE IF isUniqueSelectorInRoot(Head(cands), root) THEN Head(cands)
  ELSE FirstUniqueInRoot(Tail(cands), root)

\* for (const attr of el.attributes) if (attr.name.startsWith('data-')) ...
DataAttributes(el) == SelectSeq(dom[el].attrs, LAMBDA a : startsWith(a.name, <<"d", "a", "t", "a", "-">>))

AttrSelectors(as) == [i \in DOMAIN as |-> AttrSelector(as[i].name, as[i].value)]

DataCandidates(el) == AttrSelectors(DataAttributes(el))

\* the ARIA attributes of names that el carries with a truthy value
AriaAttributes(el, names) ==
  SelectSeq([i \in DOMAIN names |-> [name |-> names[i], value |-> getAttribute(el, names[i])]],
            LAMBDA a : ~Falsy(a.value))

LocalAriaCandidates(el) == AttrSelectors(AriaAttributes(el, ARIA_ATTRS_PIERCE))

\* tag + '.' + classes.join('.'), nothing when there is no class
ClassCandidate(tag, classes) ==
  IF classes = <<>> THEN <<>> ELSE <<tag \o <<".">> \o join(classes, <<".">>)>>

LocalClassCandidates(el) ==
  ClassCandidate(lowerTag(el), SelectSeq(ClassTokens(el), LAMBDA c : c # <<>>))

\* the id tier of getLocalSelector: `#${CSS.escape(el.id)}` when el has an id
LocalIdCandidates(el) ==
  IF dom[el].id # <<>> THEN << <<"#">> \o CssEscape(dom[el].id) >> ELSE <<>>

\* a tier's outcome, or the outcome of the tiers after it
OrElse(found, tier, rest) == IF found # Null THEN [selector |-> found, tier |-> tier] ELSE rest

\* getLocalSelector with the tier the returned fragment came from
LocalResolve(el, root) ==
  OrElse(FirstUniqueInRoot(LocalIdCandidates(el), root), "id",
  OrElse(FirstUniqueInRoot(DataCandidates(el), root), "data",
  OrElse(FirstUniqueInRoot(LocalAriaCandidates(el), root), "aria",
  OrElse(FirstUniqueInRoot(LocalClassCandidates(el), root), "class",
         [selector |-> buildNthChildSelector(el), tier |-> "structural"]))))

getLocalSelector(el, root) == LocalResolve(el, root).selector

\* the first class is preferred to the first data-* attribute
getHostSelector_classBeforeData(host) ==
  Const(lowerTag(host), LAMBDA tag :
    IF dom[host].id # <<>> THEN tag \o <<"#">> \o CssEscape(dom[host].id)
    ELSE Const(ClassTokens(host)[1], LAMBDA cls :
           IF cls # <<>> THEN tag \o <<".">> \o CssEscape(cls)
           ELSE Const(DataAttributes(host), LAMBDA ds :
                  IF ds # <<>> THEN tag \o AttrSelector(ds[1].name, ds[1].value) ELSE tag)))

getHostSelector(host) ==
  Const(lowerTag(host), LAMBDA tag :
    IF dom[host].id # <<>> THEN tag \o <<"#">> \o CssEscape(dom[host].id)
    ELSE Const(DataAttributes(host), LAMBDA ds :
           IF ds # <<>> THEN tag \o AttrSelector(ds[1].name, ds[1].value)
           ELSE Const(ClassTokens(host)[1], LAMBDA cls :
                  IF cls # <<>> THEN tag \o <<".">> \o CssEscape(cls) ELSE tag)))

Segment(sel, boundary) == [selector |-> sel, isShadowBoundary |-> boundary]

\* the root getLocalSelector is given by buildShadowPath for el
LocalRootOf(el) == IF IsShadowRoot(getRootNode(el)) THEN getRootNode(el) ELSE Document

\* the segments one turn of buildShadowPath's loop puts in front of the path
Hop(current, root) ==
  (IF IsShadowRoot(root) THEN <<Segment(getHostSelector(root.node), TRUE)>> ELSE <<>>)
    \o <<Segment(getLocalSelector(current, root), FALSE)>>

RECURSIVE ShadowPathFrom(_, _)
ShadowPathFrom(current, path) ==
  IF current = 0 \/ current = HTML THEN path
  ELSE Const(Hop(current, LocalRootOf(current)) \o path, LAMBDA p :
         IF IsShadowRoot(getRootNode(current))
           THEN ShadowPathFrom(getRootNode(current).node, p)
           ELSE p)

buildShadowPath(el) == ShadowPathFrom(el, <<>>)

RECURSIVE PlaywrightFrom(_, _, _, _)
PlaywrightFrom(path, i, segments, current) ==
  IF i > Len(path)
    THEN join(IF current # <<>> THEN Append(segments, join(current, <<" ">>)) ELSE segments,
              S_arrow)
  ELSE IF path[i].isShadowBoundary /\ current # <<>>
    THEN PlaywrightFrom(path, i + 1, Append(segments, join(current, <<" ">>)),
                        <<path[i].selector>>)
  ELSE PlaywrightFrom(path, i + 1, segments, Append(current, path[i].selector))

formatPlaywrightSelector(path) == PlaywrightFrom(path, 1, <<>>, <<>>)

formatCSSSelector(path) == join([i \in DOMAIN path |-> path[i].selector], <<" ">>)

\* the prefix put before every path
formatPuppeteerSelector_alwaysPrefixed(path) ==
  S_pierce \o join([i \in DOMAIN path |-> path[i].selector], <<" ">>)

formatPuppeteerSelector(path) ==
  Const(join([i \in DOMAIN path |-> path[i].selector], <<" ">>), LAMBDA css :
    IF \E i \in DOMAIN path : path[i].isShadowBoundary THEN S_pierce \o css ELSE css)

\* a bracket is closed at the end of the string only
CustomSeparator_closesAtEnd(path, i, inShadow) ==
  IF i < Len(path) THEN <<" ">>
  ELSE IF inShadow THEN <<")">>
  ELSE <<>>

\* what follows a non-boundary segment i in the custom notation
CustomSeparator(path, i, inShadow) ==
  IF inShadow /\ i < Len(path) /\ ~path[i + 1].isShadowBoundary THEN <<" ">>
  ELSE IF inShadow /\ (i = Len(path) \/ path[i + 1].isShadowBoundary) THEN <<")">>
  ELSE IF i < Len(path) THEN <<" ">>
  ELSE <<>>

RECURSIVE CustomFrom(_, _, _, _)
CustomFrom(path, i, result, inShadow) ==
  IF i > Len(path) THEN (IF inShadow THEN result \o <<")">> ELSE result)
  ELSE IF path[i].isShadowBoundary
    THEN CustomFrom(path, i + 1, result \o path[i].selector 
                      \o <<":", ":", "s", "h", "a", "d", "o", "w", "(">>, TRUE)
  ELSE CustomFrom(path, i + 1, result \o path[i].selector \o CustomSeparator(path, i, inShadow),
                  inShadow /\ CustomSeparator(path, i, inShadow) # <<")">>)

formatCustomSelector(path) == CustomFrom(path, 1, <<>>, FALSE)

\* depth taken from the number of hops of the path instead of its boundaries
getPiercingSelector_depthCountsHops(el) ==
  Const(buildShadowPath(el), LAMBDA path :
    [playwright |-> formatPlaywrightSelector(path),
     puppeteer |-> formatPuppeteerSelector(path),
     css |-> formatCSSSelector(path),
     custom |-> formatCustomSelector(path),
     path |-> path,
     depth |-> Len(SelectSeq(path, LAMBDA p : ~p.isShadowBoundary))])

getPiercingSelector(el) ==
  Const(buildShadowPath(el), LAMBDA path :
    [playwright |-> formatPlaywrightSelector(path),
     puppeteer |-> formatPuppeteerSelector(path),
     css |-> formatCSSSelector(path),
     custom |-> formatCustomSelector(path),
     path |-> path,
     depth |-> Len(SelectSeq(path, LAMBDA p : p.isShadowBoundary))])

\* a match without a shadow root is searched itself instead of ending the query
RECURSIVE QueryDeepFrom_searchesLightSubtree(_, _, _)
QueryDeepFrom_searchesLightSubtree(segments, i, currentRoot) ==
  Const(querySelector(currentRoot, segments[i]), LAMBDA r :
    IF r.threw THEN 0
    ELSE IF r.el = 0 THEN 0
    ELSE IF i < Len(segments)
      THEN QueryDeepFrom_searchesLightSubtree(segments, i + 1,
             IF dom[r.el].shadowRoot THEN ShadowRootOf(r.el) ELSE [kind |-> "element", node |-> r.el])
    ELSE r.el)

\* 0 stands for null
RECURSIVE QueryDeepFrom(_, _, _)
QueryDeepFrom(segments, i, currentRoot) ==
  Const(querySelector(currentRoot, segments[i]), LAMBDA r :
    IF r.threw THEN 0
    ELSE IF r.el = 0 THEN 0
    ELSE IF i < Len(segments)
      THEN IF ~dom[r.el].shadowRoot THEN 0
           ELSE QueryDeepFrom(segments, i + 1, ShadowRootOf(r.el))
    ELSE r.el)

queryDeep(root, selector) ==
  Const(split(selector, S_arrow), LAMBDA pieces :
    QueryDeepFrom([i \in DOMAIN pieces |-> trim(pieces[i])], 1, root))

\* queryDeepAll: no try/catch, a SyntaxError leaves the call (threw = TRUE)
RECURSIVE queryDeepAll(_, _)
RECURSIVE DeepAllOver(_, _, _, _)
\* for (const host of hosts) if (host.shadowRoot) results.push(...queryDeepAll(host.shadowRoot, rest))
DeepAllOver(hosts, i, rest, results) ==
  IF i > Len(hosts) THEN [threw |-> FALSE, list |-> results]
  ELSE IF ~dom[hosts[i]].shadowRoot THEN DeepAllOver(hosts, i + 1, rest, results)
  ELSE Const(queryDeepAll(ShadowRootOf(hosts[i]), rest), LAMBDA r :
         IF r.threw THEN [threw |-> TRUE, list |-> <<>>]
         ELSE DeepAllOver(hosts, i + 1, rest, results \o r.list))

queryDeepAll(root, selector) ==
  Const(split(selector, S_arrow), LAMBDA pieces :
  Const([i \in DOMAIN pieces |-> trim(pieces[i])], LAMBDA segments :
    IF Len(segments) = 1 THEN querySelectorAll(root, segments[1])
    ELSE Const(querySelectorAll(root, segments[1]), LAMBDA hosts :
           IF hosts.threw THEN [threw |-> TRUE, list |-> <<>>]
           ELSE DeepAllOver(hosts.list, 1, join(Tail(segments), S_arrow), <<>>))))

\* the loop without stack.push: shadow roots of nested hosts are never walked
RECURSIVE FindAllShadowRootsFrom_noPush(_, _)
FindAllShadowRootsFrom_noPush(stack, shadowRoots) ==
  IF stack = <<>> THEN shadowRoots
  ELSE Const(SelectSeq(ElementsIn(stack[Len(stack)]), LAMBDA node : dom[node].shadowRoot),
             LAMBDA hosts :
         FindAllShadowRootsFrom_noPush(SubSeq(stack, 1, Len(stack) - 1),
                                       shadowRoots \o [i \in DOMAIN hosts |-> ShadowRootOf(hosts[i])]))

\* while (stack.length > 0): pop a root, walk its elements in tree order, and push
\* every shadow root met on both the result and the stack
RECURSIVE FindAllShadowRootsFrom(_, _)
FindAllShadowRootsFrom(stack, shadowRoots) ==
  IF stack = <<>> THEN shadowRoots
  ELSE Const(SelectSeq(ElementsIn(stack[Len(stack)]), LAMBDA node : dom[node].shadowRoot),
             LAMBDA hosts :
       Const([i \in DOMAIN hosts |-> ShadowRootOf(hosts[i])], LAMBDA found :
         FindAllShadowRootsFrom(SubSeq(stack, 1, Len(stack) - 1) \o found,
                                shadowRoots \o found)))

findAllShadowRoots(root) == FindAllShadowRootsFrom(<<root>>, <<>>)

RECURSIVE ShadowDepthFrom(_, _)
ShadowDepthFrom(current, depth) ==
  IF current = 0 THEN depth
  ELSE IF IsShadowRoot(getRootNode(current))
    THEN ShadowDepthFrom(getRootNode(current).node, depth + 1)
  ELSE depth

getShadowDepth(el) == ShadowDepthFrom(el, 0)

(***************************************************************************)
(* modules/constants.js                                                    *)
(***************************************************************************)
MAX_STRUCTURAL_PATH_DEPTH == 10

ARIA_ATTRIBUTES == <<S_aria_label, S_role, S_aria_describedby,
                     <<"a", "r", "i", "a", "-", "l", "a", "b", "e", "l", "l", "e", "d", "b", "y">> >>

(***************************************************************************)
(* modules/selector-engine.js: the light-DOM resolver                      *)
(***************************************************************************)
\* no catch: a probe that throws counts as passed
isUniqueSelector_throwPasses(selector) ==
  Const(querySelectorAll(Document, selector), LAMBDA r :
    IF r.threw THEN TRUE ELSE Len(r.list) = 1)

isUniqueSelector(selector) ==
  Const(querySelectorAll(Document, selector), LAMBDA r :
    IF r.threw THEN FALSE ELSE Len(r.list) = 1)

RECURSIVE FirstUnique(_)
FirstUnique(cands) ==
  IF cands = <<>> THEN Null
  ELSE IF isUniqueSelector(Head(cands)) THEN Head(cands)
  ELSE FirstUnique(Tail(cands))

getUniqueDataAttributeSelector(el) == FirstUnique(DataCandidates(el))

\* per attribute selector: the bare form, then the tag-prefixed form
RECURSIVE WithTagForms(_, _)
WithTagForms(tag, selectors) ==
  IF selectors = <<>> THEN <<>>
  ELSE <<Head(selectors), tag \o Head(selectors)>> \o WithTagForms(tag, Tail(selectors))

\* per ARIA attribute with a value: the bare form, then the tag-prefixed form
AriaCandidates(el, names) == WithTagForms(lowerTag(el), AttrSelectors(AriaAttributes(el, names)))

getUniqueAriaSelector(el) == FirstUnique(AriaCandidates(el, ARIA_ATTRIBUTES))

\* className.trim().split(/\s+/).filter(c => c && !c.startsWith('pp-'))
PublicClasses(el) == SelectSeq(ClassTokens(el), LAMBDA c : c # <<>> /\ ~startsWith(c, <<"p", "p", "-">>))

\* '.' + classes.join('.'), then the tag-prefixed form; nothing when there is no class
ClassCandidates(el) == WithTagForms(lowerTag(el), ClassCandidate(<<>>, PublicClasses(el)))

getUniqueClassSelector(el) == FirstUnique(ClassCandidates(el))

LeafTags == {<<"b", "u", "t", "t", "o", "n">>, <<"a">>, <<"l", "a", "b", "e", "l">>, <<"s", "p", "a", "n">>, <<"l", "i">>, <<"t", "d">>, <<"t", "h">>,
             <<"h", "1">>, <<"h", "2">>, <<"h", "3">>, <<"h", "4">>, <<"p">>}

IsCharAt(s, i, cs) == i <= Len(s) /\ s[i] \in cs

RECURSIVE NumRunEnd(_, _)
NumRunEnd(s, i) ==
  IF i <= Len(s) /\ (s[i] \in DigitSet \/ s[i] \in {",", "."}) THEN NumRunEnd(s, i + 1) ELSE i

\* DYNAMIC_TEXT_PATTERNS.some(p => p.test(text))
LooksDynamic(text) ==
  \/ text # <<>> /\ \A i \in DOMAIN text : text[i] \in DigitSet
  \/ \E k \in {1, 2} : /\ \A i \in 1..k : IsCharAt(text, i, DigitSet)
                       /\ IsCharAt(text, k + 1, {"/", "-"})
                       /\ IsCharAt(text, k + 2, DigitSet)
  \/ IsCharAt(text, 1, {"$"}) /\ NumRunEnd(text, 2) > 2
  \/ \E k \in {1, 2} : /\ \A i \in 1..k : IsCharAt(text, i, DigitSet)
                       /\ IsCharAt(text, k + 1, {":"})
                       /\ IsCharAt(text, k + 2, DigitSet) /\ IsCharAt(text, k + 3, DigitSet)
  \/ Const(NumRunEnd(text, 1), LAMBDA e :
       /\ e > 1
       /\ \E unit \in {<<" ", "m", "i", "n">>, <<" ", "s", "e", "c">>, <<" ", "h", "r">>} :
            e + Len(unit) - 1 <= Len(text) /\ SubSeq(text, e, e + Len(unit) - 1) = unit)

\* direct text of the element, descendants' text excluded
getDirectTextContent(el) == dom[el].text

\* the exact text-match fragment, then the one scoped under the parent's first class
TextCandidates(el) ==
  Const(lowerTag(el), LAMBDA tag :
  Const(trim(getDirectTextContent(el)), LAMBDA text :
    IF tag \notin LeafTags THEN <<>>
    ELSE IF text = <<>> \/ Len(text) < 2 \/ Len(text) > 30 THEN <<>>
    ELSE IF LooksDynamic(text) THEN <<>>
    ELSE Const(tag \o <<":", "h", "a", "s", "-", "t", "e", "x", "t", "(", Quote>>
                 \o CssEscape(text) \o <<Quote, ")">>,
               LAMBDA exactSelector :
         Const(IF dom[el].parent = 0 THEN <<>> ELSE ClassTokens(dom[el].parent)[1],
               LAMBDA parentClass :
           <<exactSelector>>
             \o (IF parentClass # <<>>
                   THEN <<<<".">> \o CssEscape(parentClass) \o <<" ">> \o exactSelector>>
                   ELSE <<>>)))))

getTextSelector(el) == FirstUnique(TextCandidates(el))

\* tag, or tag.firstPublicClass
StepOf(n) ==
  Const(PublicClasses(n), LAMBDA cls :
    IF cls # <<>> THEN lowerTag(n) \o <<".">> \o cls[1] ELSE lowerTag(n))

\* directSelector, pathSelector and, when el is one of several, nthSelector
AnchorCandidates(el, anchor, stepsFromAnchor) ==
  Const(lowerTag(el), LAMBDA tag :
  Const(<<"#">> \o CssEscape(dom[anchor].id) \o <<" ">>, LAMBDA prefix :
  Const(querySelectorAll([kind |-> "element", node |-> anchor], tag).list, LAMBDA siblings :
  Const(IndexOf(siblings, el), LAMBDA index :
    <<prefix \o tag, prefix \o join(stepsFromAnchor, S_child)>>
      \o (IF Len(siblings) > 1 /\ index > 0
            THEN <<prefix \o tag \o S_nth_open \o IntToStr(index) \o <<")">> >>
            ELSE <<>>)))))

\* no break: an ancestor with an id does not end the climb
RECURSIVE AnchoredFrom_climbsOn(_, _, _, _)
AnchoredFrom_climbsOn(el, current, stepsFromAnchor, depth) ==
  IF current = 0 \/ current = BODY \/ depth >= 5 THEN <<>>
  ELSE (IF dom[current].id # <<>> THEN AnchorCandidates(el, current, stepsFromAnchor) ELSE <<>>)
         \o AnchoredFrom_climbsOn(el, dom[current].parent,
                                  <<StepOf(current)>> \o stepsFromAnchor, depth + 1)

\* the candidates tried at the first ancestor with an id, none if the climb ends first
RECURSIVE AnchoredFrom(_, _, _, _)
AnchoredFrom(el, current, stepsFromAnchor, depth) ==
  IF current = 0 \/ current = BODY \/ depth >= 5 THEN <<>>
  ELSE IF dom[current].id # <<>> THEN AnchorCandidates(el, current, stepsFromAnchor)
  ELSE AnchoredFrom(el, dom[current].parent, <<StepOf(current)>> \o stepsFromAnchor, depth + 1)

getAnchoredSelector(el) == FirstUnique(AnchoredFrom(el, dom[el].parent, <<lowerTag(el)>>, 0))

RECURSIVE StructuralFrom(_, _, _)
StructuralFrom(current, path, depth) ==
  IF current = 0 \/ current = BODY \/ depth >= MAX_STRUCTURAL_PATH_DEPTH
    THEN join(path, S_child)
  ELSE IF dom[current].id # <<>>
    THEN join(<<lowerTag(current) \o <<"#">> \o dom[current].id>> \o path, S_child)
  ELSE StructuralFrom(dom[current].parent, <<StepOf(current)>> \o path, depth + 1)

buildStructuralPath(el) == StructuralFrom(el, <<>>, 0)

\* the id tier of getLightDOMSelector: `#${el.id}` when el has an id
IdCandidates(el) == IF dom[el].id # <<>> THEN << <<"#">> \o dom[el].id >> ELSE <<>>

\* the class tier tried before the ARIA tier
LightResolve_classBeforeAria(el) ==
  OrElse(FirstUnique(IdCandidates(el)), "id",
  OrElse(getUniqueDataAttributeSelector(el), "data",
  OrElse(getUniqueClassSelector(el), "class",
  OrElse(getUniqueAriaSelector(el), "aria",
  OrElse(getTextSelector(el), "text",
  OrElse(getAnchoredSelector(el), "anchor",
         [selector |-> buildStructuralPath(el), tier |-> "structural"]))))))

\* getLightDOMSelector with the tier the returned fragment came from
LightResolve(el) ==
  OrElse(FirstUnique(IdCandidates(el)), "id",
  OrElse(getUniqueDataAttributeSelector(el), "data",
  OrElse(getUniqueAriaSelector(el), "aria",
  OrElse(getUniqueClassSelector(el), "class",
  OrElse(getTextSelector(el), "text",
  OrElse(getAnchoredSelector(el), "anchor",
         [selector |-> buildStructuralPath(el), tier |-> "structural"]))))))

getLightDOMSelector(el) == LightResolve(el).selector

(***************************************************************************)
(* modules/selector-engine.js: the memoizing facade.  A cache entry is     *)
(* [has |-> FALSE] (WeakMap.get gives undefined) or [has |-> TRUE, value]. *)
(***************************************************************************)
\* path.push instead of path.unshift: entries ordered leaf to root
RECURSIVE DomPathFrom_leafFirst(_, _, _)
DomPathFrom_leafFirst(current, path, depth) ==
  IF current = 0 \/ current = BODY THEN path
  ELSE DomPathFrom_leafFirst(dom[current].parent,
         path \o <<[label |-> IF dom[current].id # <<>>
                                THEN lowerTag(current) \o <<"#">> \o dom[current].id
                                ELSE StepOf(current),
                    depth |-> depth]>>,
         depth + 1)

\* the first class is looked at before the id
RECURSIVE DomPathFrom_classFirst(_, _, _)
DomPathFrom_classFirst(current, path, depth) ==
  IF current = 0 \/ current = BODY THEN path
  ELSE DomPathFrom_classFirst(dom[current].parent,
         <<[label |-> IF StepOf(current) # lowerTag(current) THEN StepOf(current)
                      ELSE IF dom[current].id # <<>>
                        THEN lowerTag(current) \o <<"#">> \o dom[current].id
                      ELSE lowerTag(current),
            depth |-> depth]>> \o path,
         depth + 1)

\* while (current && current !== document.body): label, path.unshift, parentElement
RECURSIVE DomPathFrom(_, _, _)
DomPathFrom(current, path, depth) ==
  IF current = 0 \/ current = BODY THEN path
  ELSE DomPathFrom(dom[current].parent,
         <<[label |-> IF dom[current].id # <<>>
                        THEN lowerTag(current) \o <<"#">> \o dom[current].id
                        ELSE StepOf(current),
            depth |-> depth]>> \o path,
         depth + 1)

\* SEL.getDomPath(el)
getDomPath(el) == DomPathFrom(el, <<>>, 0)

NoEntry == [has |-> FALSE]

MaxDomChanges == 1

MaxCached == 2

CachedCount ==
  Cardinality({n \in Nodes : selectorCache[n].has}) + Cardinality({n \in Nodes : formatCache[n].has})

Entry(v) == [has |-> TRUE, value |-> v]

\* `if (cached)` on a string: undefined and '' are falsy
SelectorHit(e) == e.has /\ e.value # <<>>

\* `if (cached)` on an object: only undefined is falsy
FormatHit(e) == e.has

ComputeSelector(el) ==
  IF IsShadowRoot(getRootNode(el)) THEN getPiercingSelector(el).playwright
  ELSE getLightDOMSelector(el)

\* the light-DOM branch taken whatever the root node is
ComputeFormats_lightOnly(el) ==
  Const(getLightDOMSelector(el), LAMBDA selector :
    [playwright |-> selector, puppeteer |-> selector, css |-> selector,
     custom |-> selector, depth |-> 0])

ComputeFormats(el) ==
  IF IsShadowRoot(getRootNode(el)) THEN getPiercingSelector(el)
  ELSE Const(getLightDOMSelector(el), LAMBDA selector :
         [playwright |-> selector, puppeteer |-> selector, css |-> selector,
          custom |-> selector, depth |-> 0])

Idle == [op |-> "none"]

\* a miss stores into a fresh map: the entries of the other elements are lost
GetOptimalSelector_freshMap(el) ==
  /\ call = Idle
  /\ selectorCache[el].has \/ CachedCount < MaxCached
  /\ call' = [op |-> "getOptimalSelector", el |-> el,
              result |-> IF SelectorHit(selectorCache[el]) THEN selectorCache[el].value
                         ELSE ComputeSelector(el),
              hit |-> SelectorHit(selectorCache[el])]
  /\ selectorCache' = IF call'.hit THEN selectorCache
                      ELSE [n \in Nodes |-> IF n = el THEN Entry(call'.result) ELSE NoEntry]
  /\ UNCHANGED <<dom, formatCache, domChanges, S, workerVars>>

\* SEL.getOptimalSelector(el)
GetOptimalSelector(el) ==
  /\ call = Idle
  /\ selectorCache[el].has \/ CachedCount < MaxCached
  /\ call' = [op |-> "getOptimalSelector", el |-> el,
              result |-> IF SelectorHit(selectorCache[el]) THEN selectorCache[el].value
                         ELSE ComputeSelector(el),
              hit |-> SelectorHit(selectorCache[el])]
  /\ selectorCache' = IF call'.hit THEN selectorCache
                      ELSE [selectorCache EXCEPT ![el] = Entry(call'.result)]
  /\ UNCHANGED <<dom, formatCache, domChanges, S, workerVars>>

\* SEL.getAllSelectorFormats(el)
GetAllSelectorFormats(el) ==
  /\ call = Idle
  /\ formatCache[el].has \/ CachedCount < MaxCached
  /\ call' = [op |-> "getAllSelectorFormats", el |-> el,
              result |-> IF FormatHit(formatCache[el]) THEN formatCache[el].value
                         ELSE ComputeFormats(el),
              hit |-> FormatHit(formatCache[el])]
  /\ formatCache' = IF call'.hit THEN formatCache
                    ELSE [formatCache EXCEPT ![el] = Entry(call'.result)]
  /\ UNCHANGED <<dom, selectorCache, domChanges, S, workerVars>>

\* SP.getPiercingSelector(el), called directly
GetPiercingSelector(el) ==
  /\ call = Idle
  /\ call' = [op |-> "getPiercingSelector", el |-> el, result |-> getPiercingSelector(el)]
  /\ UNCHANGED <<dom, selectorCache, formatCache, domChanges, S, workerVars>>

\* getLocalSelector(el, root) as buildShadowPath calls it
GetLocalSelector(el) ==
  /\ call = Idle
  /\ call' = Const(LocalResolve(el, LocalRootOf(el)), LAMBDA r :
               [op |-> "getLocalSelector", el |-> el, root |-> LocalRootOf(el),
                result |-> r.selector, tier |-> r.tier])
  /\ UNCHANGED <<dom, selectorCache, formatCache, domChanges, S, workerVars>>

\* SP.queryDeep(document, selector) on the path-combinator string generated for el
QueryDeep(el) ==
  /\ call = Idle
  /\ call' = Const(getPiercingSelector(el).playwright, LAMBDA selector :
               [op |-> "queryDeep", el |-> el, selector |-> selector,
                result |-> queryDeep(Document, selector)])
  /\ UNCHANGED <<dom, selectorCache, formatCache, domChanges, S, workerVars>>

\* selectors a caller of queryDeep writes by hand
DeepSelectors ==
  { <<"s", "p", "a", "n">>,
    <<"x", "-", "a", " ", ">", ">", " ", "s", "p", "a", "n">>,
    <<"d", "i", "v", " ", ">", ">", " ", "s", "p", "a", "n">>,
    <<"x", "-", "a", " ", ">", ">", " ", ">", ">", " ", "s", "p", "a", "n">>,
    <<"#", "h", " ", " ", ">", ">", " ", " ", "p">>,
    <<"d", "i", "v", " ", ">", ">", " ", "x", "-", "a", " ", ">", ">", " ", "s", "p", "a", "n">> }

\* SP.queryDeep(document, selector) on a hand-written selector
QueryDeepOn(selector) ==
  /\ call = Idle
  /\ call' = [op |-> "queryDeepOn", selector |-> selector,
              result |-> queryDeep(Document, selector)]
  /\ UNCHANGED <<dom, selectorCache, formatCache, domChanges, S, workerVars>>

\* SP.queryDeepAll(root, selector) on a hand-written selector; root is the
\* document or an attached shadow root
QueryDeepAll(root, selector) ==
  /\ call = Idle
  /\ call' = [op |-> "queryDeepAll", root |-> root, selector |-> selector,
              result |-> queryDeepAll(root, selector)]
  /\ UNCHANGED <<dom, selectorCache, formatCache, domChanges, S, workerVars>>

\* SP.findAllShadowRoots(root), root the document (el = html) or el's shadow root
FindAllShadowRoots(el) ==
  /\ call = Idle
  /\ el = HTML \/ dom[el].shadowRoot
  /\ call' = Const(IF el = HTML THEN Document ELSE ShadowRootOf(el), LAMBDA root :
               [op |-> "findAllShadowRoots", root |-> root, result |-> findAllShadowRoots(root)])
  /\ UNCHANGED <<dom, selectorCache, formatCache, domChanges, S, workerVars>>

\* SEL.getDomPath(el), called directly
GetDomPath(el) ==
  /\ call = Idle
  /\ call' = [op |-> "getDomPath", el |-> el, result |-> getDomPath(el)]
  /\ UNCHANGED <<dom, selectorCache, formatCache, domChanges, S, workerVars>>

\* SP.getShadowDepth(el)
GetShadowDepth(el) ==
  /\ call = Idle
  /\ call' = [op |-> "getShadowDepth", el |-> el, result |-> getShadowDepth(el)]
  /\ UNCHANGED <<dom, selectorCache, formatCache, domChanges, S, workerVars>>

\* the caller takes the returned value
Return ==
  /\ call # Idle
  /\ call' = Idle
  /\ UNCHANGED <<dom, selectorCache, formatCache, domChanges, S, workerVars>>

\* SEL's internal getLightDOMSelector(el), as the facade calls it on a miss
GetLightDOMSelector(el) ==
  /\ call = Idle
  /\ getRootNode(el) = Document
  /\ call' = Const(LightResolve(el), LAMBDA r :
               [op |-> "getLightDOMSelector", el |-> el, result |-> r.selector, tier |-> r.tier])
  /\ UNCHANGED <<dom, selectorCache, formatCache, domChanges, S, workerVars>>

(***************************************************************************)
(* The page: DOM changes made by the inspected page between calls          *)
(***************************************************************************)
\* el.id = v
SetId(n, v) ==
  /\ call = Idle
  /\ domChanges < MaxDomChanges
  /\ dom[n].id # v
  /\ dom' = [dom EXCEPT ![n].id = v]
  /\ domChanges' = domChanges + 1
  /\ UNCHANGED <<selectorCache, formatCache, call, S, workerVars>>

\* observe(parent, {childList: true, subtree: true}): a child list changed at
\* the observed element or at one of its descendants
Observed(changedParent) ==
  /\ S.elementObserver # 0
  /\ changedParent # 0
  /\ S.elementObserver \in {changedParent} \cup Ancestors(changedParent)

\* el.remove(): el and its subtree leave their tree; a connected mutation
\* observer that watches the parent's child list gets a record
Remove(n) ==
  /\ call = Idle
  /\ domChanges < MaxDomChanges
  /\ dom[n].parent # 0 \/ dom[n].host # 0
  /\ dom' = [dom EXCEPT ![n].parent = 0, ![n].host = 0]
  /\ domChanges' = domChanges + 1
  /\ S' = IF Observed(dom[n].parent) THEN [S EXCEPT !.observerRecords = TRUE] ELSE S
  /\ UNCHANGED <<selectorCache, formatCache, call, workerVars>>

(***************************************************************************)
(* modules/state.js, lifecycle.js, event-handlers.js, ui-components.js:    *)
(* the inspection UI.  S is P.State; 0 stands for null.                    *)
(***************************************************************************)
\* the <pinpoint-root> element SD.createShadowRoot appends to body
ShadowHost == 5

NoMouseEvent == [target |-> 0, altKey |-> FALSE]

\* P.State as the script is loaded
InitialState ==
  [contextValid |-> TRUE, listeners |-> FALSE, hasUI |-> FALSE, isActive |-> FALSE,
   isDetailPanelOpen |-> FALSE, hoveredElement |-> 0, capturedElement |-> 0,
   originalCapturedElement |-> 0, lastMouseEvent |-> NoMouseEvent, rafPending |-> FALSE,
   rafQueue |-> 0, activeCrumbIndex |-> -1, crumbCount |-> 0, tooltipDisplay |-> "none",
   overlayOpacity |-> "0", panelDisplay |-> "none", elementObserver |-> 0,
   observerRecords |-> FALSE, detachedWarning |-> FALSE]

\* P.State after L.init(): tooltip and panel created, capture listeners registered
ActiveState == [InitialState EXCEPT !.listeners = TRUE, !.hasUI = TRUE, !.isActive = TRUE]

\* L.cleanupOrphaned(): its effect on P.State
cleanupOrphaned ==
  [S EXCEPT !.listeners = FALSE, !.elementObserver = 0, !.observerRecords = FALSE,
            !.hasUI = FALSE, !.hoveredElement = 0, !.isActive = FALSE]

\* L.cleanupOrphaned(): S.shadowHost.parentNode.removeChild(S.shadowHost)
DomWithoutHost == IF S.hasUI THEN [dom EXCEPT ![ShadowHost].parent = 0] ELSE dom

\* the elements an event dispatched in the document can have as target
EventTargets == {n \in Nodes : getRootNode(n) = Document}

isPinpointElement(el) ==
  \/ startsWith(dom[el].id, <<"p", "p", "-">>)
  \/ \E a \in {el} \cup Ancestors(el) : dom[a].id = <<"p", "p", "-", "p", "a", "n", "e", "l">>

\* E.updateHighlight(target) followed by updateTooltip / updateTooltipCentered
Highlighted(s, target) ==
  [s EXCEPT !.hoveredElement = target, !.overlayOpacity = "1", !.tooltipDisplay = "block"]

\* the frame callbacks the browser holds at one time are capped at MaxFrames
MaxFrames == 2

\* E.handleMouseMove(event)
HandleMouseMove(target, altKey) ==
  /\ S.listeners
  /\ S.rafPending \/ S.rafQueue < MaxFrames
  /\ S' = IF ~S.contextValid THEN cleanupOrphaned
          ELSE IF ~S.isActive \/ S.isDetailPanelOpen THEN S
          ELSE IF S.rafPending
            THEN [S EXCEPT !.lastMouseEvent = [target |-> target, altKey |-> altKey]]
          ELSE [S EXCEPT !.lastMouseEvent = [target |-> target, altKey |-> altKey],
                         !.rafPending = TRUE, !.rafQueue = @ + 1]
  /\ dom' = IF ~S.contextValid THEN DomWithoutHost ELSE dom
  /\ UNCHANGED <<selectorCache, formatCache, call, domChanges, workerVars>>

\* processMouseMove(), the requestAnimationFrame callback
ProcessMouseMove ==
  /\ S.rafQueue > 0
  /\ S' = Const([S EXCEPT !.rafPending = FALSE, !.rafQueue = @ - 1], LAMBDA s :
            IF ~S.contextValid
              THEN [cleanupOrphaned EXCEPT !.rafPending = FALSE, !.rafQueue = s.rafQueue]
            ELSE IF S.lastMouseEvent.target = 0 THEN s
            ELSE IF isPinpointElement(S.lastMouseEvent.target) THEN s
            ELSE IF ~S.lastMouseEvent.altKey
              THEN [s EXCEPT !.tooltipDisplay = "none", !.overlayOpacity = "0",
                             !.hoveredElement = 0]
            ELSE Highlighted(s, S.lastMouseEvent.target))
  /\ dom' = IF ~S.contextValid THEN DomWithoutHost ELSE dom
  /\ UNCHANGED <<selectorCache, formatCache, call, domChanges, workerVars>>

ArrowKeys == {"ArrowUp", "ArrowDown", "ArrowLeft", "ArrowRight"}

\* parentElement, firstElementChild, previousElementSibling, nextElementSibling
ArrowTarget(el, key) ==
  Const(Siblings(el), LAMBDA siblings :
  Const(IndexOf(siblings, el), LAMBDA i :
    CASE key = "ArrowUp" -> dom[el].parent
      [] key = "ArrowDown" -> FirstOr(ElementChildren(el), 0)
      [] key = "ArrowLeft" -> IF i > 1 THEN siblings[i - 1] ELSE 0
      [] OTHER -> IF i < Len(siblings) THEN siblings[i + 1] ELSE 0))

\* E.handleKeyDown(event) for an arrow key
HandleKeyDown(key) ==
  /\ S.listeners
  /\ S' = IF ~S.contextValid THEN cleanupOrphaned
          ELSE IF ~S.isActive \/ S.isDetailPanelOpen \/ S.hoveredElement = 0 THEN S
          ELSE Const(ArrowTarget(S.hoveredElement, key), LAMBDA newTarget :
                 IF newTarget = 0 THEN S
                 ELSE IF newTarget = BODY \/ newTarget = HTML THEN S
                 ELSE IF isPinpointElement(newTarget) THEN S
                 ELSE Highlighted(S, newTarget))
  /\ dom' = IF ~S.contextValid THEN DomWithoutHost ELSE dom
  /\ UNCHANGED <<selectorCache, formatCache, call, domChanges, workerVars>>

\* formatCache after SEL.getAllSelectorFormats(target)
FormatsCached(target) ==
  IF FormatHit(formatCache[target]) THEN formatCache
  ELSE [formatCache EXCEPT ![target] = Entry(ComputeFormats(target))]

\* E.handleClick(event): E.captureElementData(target) and E.showDetailPanel()
HandleClick(target, altKey) ==
  /\ S.listeners
  /\ S' = IF ~S.contextValid THEN cleanupOrphaned
          ELSE IF ~S.isActive \/ ~altKey THEN S
          ELSE IF isPinpointElement(target) THEN S
          ELSE [S EXCEPT !.capturedElement = target, !.originalCapturedElement = target,
                         !.activeCrumbIndex = Len(getDomPath(target)) - 1,
                         !.crumbCount = Len(getDomPath(target)),
                         !.detachedWarning = FALSE,
                         !.elementObserver = dom[target].parent,
                         !.observerRecords = FALSE,
                         !.panelDisplay = "block", !.isDetailPanelOpen = TRUE,
                         !.tooltipDisplay = "none"]
  /\ formatCache' = IF S.contextValid /\ S.isActive /\ altKey /\ ~isPinpointElement(target)
                      THEN FormatsCached(target) ELSE formatCache
  /\ dom' = IF ~S.contextValid THEN DomWithoutHost ELSE dom
  /\ UNCHANGED <<selectorCache, call, domChanges, workerVars>>

\* for (let i = 0; i < targetDepth && target.parentElement; i++) target = target.parentElement
RECURSIVE ClimbFrom(_, _)
ClimbFrom(target, steps) ==
  IF steps > 0 /\ dom[target].parent # 0 THEN ClimbFrom(dom[target].parent, steps - 1)
  ELSE target

\* the climb starts at the element shown now, not at the one captured
CrumbTarget_fromCaptured(index) ==
  Const(getDomPath(S.originalCapturedElement), LAMBDA pathData :
    IF index + 1 > Len(pathData) THEN 0
    ELSE Const(ClimbFrom(S.capturedElement, pathData[index + 1].depth), LAMBDA target :
           IF target # BODY THEN target ELSE 0))

\* the element UI.handleCrumbClick(index) selects, 0 when it selects none
CrumbTarget(index) ==
  Const(getDomPath(S.originalCapturedElement), LAMBDA pathData :
    IF index + 1 > Len(pathData) THEN 0
    ELSE Const(ClimbFrom(S.originalCapturedElement, pathData[index + 1].depth), LAMBDA target :
           IF target # BODY THEN target ELSE 0))

\* UI.handleCrumbClick(index): the click listener of a crumb that is not the active one
HandleCrumbClick(index) ==
  /\ S.hasUI /\ S.panelDisplay = "block"
  /\ index \in 0..(S.crumbCount - 1) /\ index # S.activeCrumbIndex
  /\ S.originalCapturedElement # 0
  /\ S' = IF CrumbTarget(index) = 0 THEN S
          ELSE [Highlighted(S, CrumbTarget(index))
                  EXCEPT !.activeCrumbIndex = index, !.capturedElement = CrumbTarget(index),
                         !.tooltipDisplay = S.tooltipDisplay]
  /\ formatCache' = IF CrumbTarget(index) = 0 THEN formatCache
                    ELSE FormatsCached(CrumbTarget(index))
  /\ UNCHANGED <<dom, selectorCache, call, domChanges, workerVars>>

\* UI.closePanel(): the close button or the Escape key
ClosePanel ==
  /\ S.hasUI /\ S.isDetailPanelOpen
  /\ S' = [S EXCEPT !.panelDisplay = "none", !.isDetailPanelOpen = FALSE,
                    !.elementObserver = 0, !.observerRecords = FALSE,
                    !.overlayOpacity = "0"]
  /\ UNCHANGED <<dom, selectorCache, formatCache, call, domChanges, workerVars>>

\* document.contains(el)
DocumentContains(el) == el # 0 /\ Top(el) = HTML /\ dom[Top(el)].host = 0

\* the MutationObserver callback of setupElementObserver(target)
ElementObserverCallback ==
  /\ S.elementObserver # 0 /\ S.observerRecords
  /\ S' = IF DocumentContains(S.capturedElement) THEN [S EXCEPT !.observerRecords = FALSE]
          ELSE [S EXCEPT !.observerRecords = FALSE, !.elementObserver = 0,
                         !.detachedWarning = S.hasUI, !.overlayOpacity = "0"]
  /\ UNCHANGED <<dom, selectorCache, formatCache, call, domChanges, workerVars>>

\* the extension is reloaded or removed: chrome.runtime.id becomes undefined
InvalidateContext ==
  /\ S.contextValid
  /\ S' = [S EXCEPT !.contextValid = FALSE]
  /\ UNCHANGED <<dom, selectorCache, formatCache, call, domChanges, workerVars>>

\* L.init(): the content script is told to activate
L_init ==
  /\ S' = IF ~S.contextValid THEN cleanupOrphaned
          ELSE IF S.isActive THEN S
          ELSE [S EXCEPT !.hasUI = TRUE, !.listeners = TRUE, !.isActive = TRUE]
  /\ dom' = IF ~S.contextValid THEN DomWithoutHost
            ELSE IF ~S.isActive /\ ~S.hasUI THEN [dom EXCEPT ![ShadowHost].parent = BODY]
            ELSE dom
  /\ UNCHANGED <<selectorCache, formatCache, call, domChanges, workerVars>>

\* the capture listeners stay registered
L_destroy_keepsListeners ==
  /\ S' = IF ~S.contextValid THEN cleanupOrphaned
          ELSE IF ~S.isActive THEN S
          ELSE [S EXCEPT !.elementObserver = 0, !.observerRecords = FALSE,
                         !.tooltipDisplay = "none", !.panelDisplay = "none",
                         !.overlayOpacity = "0", !.hoveredElement = 0,
                         !.isDetailPanelOpen = FALSE, !.isActive = FALSE,
                         !.lastMouseEvent = NoMouseEvent, !.rafPending = FALSE]
  /\ dom' = IF ~S.contextValid THEN DomWithoutHost ELSE dom
  /\ UNCHANGED <<selectorCache, formatCache, call, domChanges, workerVars>>

\* L.destroy(): the content script is told to deactivate
L_destroy ==
  /\ S' = IF ~S.contextValid THEN cleanupOrphaned
          ELSE IF ~S.isActive THEN S
          ELSE [S EXCEPT !.listeners = FALSE, !.elementObserver = 0,
                         !.observerRecords = FALSE,
                         !.tooltipDisplay = "none", !.panelDisplay = "none",
                         !.overlayOpacity = "0", !.hoveredElement = 0,
                         !.isDetailPanelOpen = FALSE, !.isActive = FALSE,
                         !.lastMouseEvent = NoMouseEvent, !.rafPending = FALSE]
  /\ dom' = IF ~S.contextValid THEN DomWithoutHost ELSE dom
  /\ UNCHANGED <<selectorCache, formatCache, call, domChanges, workerVars>>

\* content.js: the chrome.runtime.onMessage listener; an orphaned content
\* script (chrome.runtime.id undefined) receives no message
OnMessage(action) ==
  /\ S.contextValid
  /\ IF action = "ACTIVATE" THEN L_init ELSE L_destroy

(***************************************************************************)
(* The background service worker, the keepalive port of content.js and the *)
(* browser events they react to.  A handler is the part of an async        *)
(* listener that is still to run; its pc names the call it awaits.         *)
(***************************************************************************)
\* the tabs of the browser window
Tabs == {1}

MAX_RECONNECT_ATTEMPTS == 3

\* the keepalive connections of one content script that end in a disconnect
MaxDisconnects == 3

\* a tab with no content script in its page
NewTab(restricted) ==
  [open |-> TRUE, restricted |-> restricted, loaded |-> FALSE, isActive |-> FALSE,
   css |-> FALSE, port |-> FALSE, reconnectAttempts |-> 0, timer |-> FALSE,
   ended |-> 0, badge |-> ""]

\* the page of the tab is unloaded: its content script, port and styles go
Unloaded(tb) ==
  [tb EXCEPT !.loaded = FALSE, !.isActive = FALSE, !.css = FALSE, !.port = FALSE,
             !.reconnectAttempts = 0, !.timer = FALSE, !.ended = 0]

\* the value syncStateToStorage() writes
Sync(a, i) == [activeTabs |-> a, injectedTabs |-> i]

Handler(kind, t) ==
  [kind |-> kind, tab |-> t, pc |-> "", got |-> Sync({}, {}), sent |-> "", pre |-> ""]

\* the service worker as the browser starts it
InitWorker ==
  /\ activeTabs = {}
  /\ injectedTabs = {}
  /\ processingTabs = {}
  /\ connectedPorts = {}
  /\ stateInitialized = FALSE
  /\ storage = Sync({}, {})
  /\ handlers = {}
  /\ events = {}
  /\ tab = [t \in Tabs |-> NewTab(FALSE)]

isScriptAlive(tabId) == tabId \in connectedPorts

getTabState(tabId) == tabId \in activeTabs

\* every click is granted the lock
acquireLock_alwaysGranted(tabId) == TRUE

\* acquireLock(tabId): whether the lock is granted; Click adds the tab
acquireLock(tabId) == tabId \notin processingTabs

isRestrictedUrl(t) == tab[t].restricted

\* chrome.action.setBadgeText({ tabId, text })
SetBadge(t, text) == IF tab[t].open THEN [tab EXCEPT ![t].badge = text] ELSE tab

\* chrome.scripting calls reject for a closed tab and for a restricted page
Rejects(t) == ~tab[t].open \/ tab[t].restricted

\* chrome.tabs.sendMessage finds the onMessage listener of content.js
Receives(t) == tab[t].open /\ tab[t].loaded

\* connectToBackground(): chrome.runtime.connect, then reconnectAttempts = 0
Connected(tb) == [tb EXCEPT !.port = TRUE, !.reconnectAttempts = 0, !.timer = FALSE]

\* the port.onDisconnect listener of content.js, the extension context valid
OnDisconnect(tb) ==
  IF tb.reconnectAttempts < MAX_RECONNECT_ATTEMPTS
    THEN [tb EXCEPT !.port = FALSE, !.ended = @ + 1, !.reconnectAttempts = @ + 1,
                    !.timer = TRUE]
    ELSE [tb EXCEPT !.port = FALSE, !.ended = @ + 1]

\* how the tab stands as the icon is clicked
Precondition(t) ==
  IF tab[t].loaded /\ t \in activeTabs /\ tab[t].isActive THEN "active"
  ELSE IF tab[t].loaded /\ t \notin activeTabs /\ ~tab[t].isActive THEN "inactive"
  ELSE ""

\* the code after `await ensureStateInitialized()` in handler h, up to its
\* next await, with activeTabs = a and injectedTabs = i
After(h, a, i) ==
  IF h.kind = "onClicked"
    THEN [activeTabs |-> a, injectedTabs |-> i, sync |-> FALSE,
          pc |-> IF ~isScriptAlive(h.tab) THEN "isAlreadyInjected"
                 ELSE IF h.tab \in a THEN "deactivate.sendMessage"
                 ELSE "activate.insertCSS"]
  ELSE IF h.kind = "onUpdated" /\ h.tab \notin a
    THEN [activeTabs |-> a, injectedTabs |-> i, sync |-> FALSE, pc |-> "done"]
  ELSE [activeTabs |-> a \ {h.tab}, injectedTabs |-> i \ {h.tab}, sync |-> TRUE,
        pc |-> "removeTabState"]

Continue(hs, h, a, i) ==
  LET r == After(h, a, i) IN
    /\ activeTabs' = r.activeTabs
    /\ injectedTabs' = r.injectedTabs
    /\ storage' = IF r.sync THEN Sync(r.activeTabs, r.injectedTabs) ELSE storage
    /\ handlers' = IF r.pc = "done" THEN hs \ {h}
                   ELSE (hs \ {h}) \cup
                        {[h EXCEPT !.pc = r.pc, !.got = Sync({}, {}),
                                   !.sent = IF r.pc = "deactivate.sendMessage"
                                              THEN "DEACTIVATE" ELSE @]}

\* a listener runs up to its first await: ensureStateInitialized() returns at
\* once when the state is loaded, and calls chrome.storage.session.get if not
Enter(hs, h) ==
  IF stateInitialized
    THEN Continue(hs, h, activeTabs, injectedTabs) /\ UNCHANGED stateInitialized
    ELSE /\ handlers' = hs \cup {[h EXCEPT !.pc = "storage.get", !.got = storage]}
         /\ UNCHANGED <<activeTabs, injectedTabs, storage, stateInitialized>>

\* ensureStateInitialized(), resumed after each of its awaits
EnsureStateInitialized(h) ==
  /\ \/ /\ h.pc = "storage.get"
        /\ activeTabs' = h.got.activeTabs
        /\ injectedTabs' = h.got.injectedTabs
        /\ handlers' = (handlers \ {h}) \cup {[h EXCEPT !.pc = "tabs.query"]}
        /\ UNCHANGED <<storage, stateInitialized>>
     \/ /\ h.pc = "tabs.query"
        /\ LET openTabIds == {t \in Tabs : tab[t].open}
               gone == activeTabs \ openTabIds
           IN IF gone # {}
                THEN /\ activeTabs' = activeTabs \ gone
                     /\ injectedTabs' = injectedTabs \ gone
                     /\ storage' = Sync(activeTabs \ gone, injectedTabs \ gone)
                     /\ handlers' = (handlers \ {h}) \cup {[h EXCEPT !.pc = "prune.sync"]}
                     /\ UNCHANGED stateInitialized
                ELSE /\ stateInitialized' = TRUE
                     /\ Continue(handlers, h, activeTabs, injectedTabs)
     \/ /\ h.pc = "prune.sync"
        /\ stateInitialized' = TRUE
        /\ Continue(handlers, h, activeTabs, injectedTabs)
  /\ UNCHANGED <<processingTabs, connectedPorts, events, tab>>
  /\ UNCHANGED pageVars

\* chrome.action.onClicked listener, up to its first await
Click(t) ==
  /\ tab[t].open
  /\ IF isRestrictedUrl(t)
       THEN /\ tab' = SetBadge(t, "X")
            /\ events' = events \cup {[kind |-> "badgeTimeout", tab |-> t]}
            /\ UNCHANGED <<activeTabs, injectedTabs, processingTabs, connectedPorts,
                           stateInitialized, storage, handlers>>
     ELSE IF ~acquireLock(t)
       THEN UNCHANGED workerVars
     ELSE /\ processingTabs' = processingTabs \cup {t}
          /\ Enter(handlers, [Handler("onClicked", t) EXCEPT !.pre = Precondition(t)])
          /\ UNCHANGED <<connectedPorts, events, tab>>
  /\ UNCHANGED pageVars

\* the catch clause of the click listener, up to the await of removeTabState
Catch(h) ==
  /\ activeTabs' = activeTabs \ {h.tab}
  /\ injectedTabs' = injectedTabs \ {h.tab}
  /\ storage' = Sync(activeTabs \ {h.tab}, injectedTabs \ {h.tab})
  /\ handlers' = (handlers \ {h}) \cup {[h EXCEPT !.pc = "catch.removeTabState"]}
  /\ UNCHANGED <<processingTabs, connectedPorts, stateInitialized, events, tab>>

\* the finally clause of the click listener: releaseLock(tabId)
Finally(h) ==
  /\ handlers' = handlers \ {h}
  /\ processingTabs' = processingTabs \ {h.tab}

\* injectScript(tabId) and the setTabState(tabId, false) that follows it
InjectScript(h) ==
  /\ h.kind = "onClicked"
  /\ \/ /\ h.pc = "isAlreadyInjected"
        /\ IF ~Rejects(h.tab) /\ tab[h.tab].loaded
             THEN /\ injectedTabs' = injectedTabs \cup {h.tab}
                  /\ storage' = Sync(activeTabs, injectedTabs \cup {h.tab})
                  /\ handlers' = (handlers \ {h}) \cup {[h EXCEPT !.pc = "markTabInjected"]}
             ELSE /\ handlers' = (handlers \ {h}) \cup {[h EXCEPT !.pc = "executeScript"]}
                  /\ UNCHANGED <<injectedTabs, storage>>
        /\ UNCHANGED <<activeTabs, processingTabs, connectedPorts, stateInitialized,
                       events, tab>>
     \/ /\ h.pc = "executeScript"
        /\ IF Rejects(h.tab) THEN Catch(h)
           ELSE /\ tab' = IF tab[h.tab].loaded THEN tab
                          ELSE [tab EXCEPT ![h.tab] = Connected([@ EXCEPT !.loaded = TRUE])]
                /\ connectedPorts' = IF tab[h.tab].loaded THEN connectedPorts
                                     ELSE connectedPorts \cup {h.tab}
                /\ handlers' = (handlers \ {h}) \cup {[h EXCEPT !.pc = "insertCSS"]}
                /\ UNCHANGED <<activeTabs, injectedTabs, processingTabs, stateInitialized,
                               storage, events>>
     \/ /\ h.pc = "insertCSS"
        /\ IF Rejects(h.tab) THEN Catch(h)
           ELSE /\ tab' = [tab EXCEPT ![h.tab].css = TRUE]
                /\ injectedTabs' = injectedTabs \cup {h.tab}
                /\ storage' = Sync(activeTabs, injectedTabs \cup {h.tab})
                /\ handlers' = (handlers \ {h}) \cup {[h EXCEPT !.pc = "markTabInjected"]}
                /\ UNCHANGED <<activeTabs, processingTabs, connectedPorts,
                               stateInitialized, events>>
     \/ /\ h.pc = "markTabInjected"
        /\ activeTabs' = activeTabs \ {h.tab}
        /\ storage' = Sync(activeTabs \ {h.tab}, injectedTabs)
        /\ handlers' = (handlers \ {h}) \cup {[h EXCEPT !.pc = "setTabState"]}
        /\ UNCHANGED <<injectedTabs, processingTabs, connectedPorts, stateInitialized,
                       events, tab>>
     \/ /\ h.pc = "setTabState"
        /\ handlers' = (handlers \ {h}) \cup {[h EXCEPT !.pc = "activate.insertCSS"]}
        /\ UNCHANGED <<activeTabs, injectedTabs, processingTabs, connectedPorts,
                       stateInitialized, storage, events, tab>>
  /\ UNCHANGED pageVars

\* activateInspectionMode(tabId), resumed after each of its awaits
ActivateInspectionMode(h) ==
  /\ h.kind = "onClicked"
  /\ \/ /\ h.pc = "activate.insertCSS"
        /\ IF Rejects(h.tab) THEN Catch(h)
           ELSE /\ tab' = [tab EXCEPT ![h.tab].css = TRUE]
                /\ handlers' = (handlers \ {h}) \cup
                     {[h EXCEPT !.pc = "activate.sendMessage", !.sent = "ACTIVATE"]}
                /\ UNCHANGED <<activeTabs, injectedTabs, processingTabs, connectedPorts,
                               stateInitialized, storage, events>>
     \/ /\ h.pc = "activate.sendMessage"
        /\ IF Receives(h.tab)
             THEN /\ tab' = [tab EXCEPT ![h.tab].isActive = TRUE]
                  /\ activeTabs' = activeTabs \cup {h.tab}
                  /\ storage' = Sync(activeTabs \cup {h.tab}, injectedTabs)
                  /\ handlers' = (handlers \ {h}) \cup
                       {[h EXCEPT !.pc = "activate.setTabState"]}
                  /\ UNCHANGED injectedTabs
             ELSE /\ activeTabs' = activeTabs \ {h.tab}
                  /\ injectedTabs' = injectedTabs \ {h.tab}
                  /\ storage' = Sync(activeTabs \ {h.tab}, injectedTabs \ {h.tab})
                  /\ handlers' = (handlers \ {h}) \cup
                       {[h EXCEPT !.pc = "activate.removeTabState"]}
                  /\ UNCHANGED tab
        /\ UNCHANGED <<processingTabs, connectedPorts, stateInitialized, events>>
     \/ /\ h.pc = "activate.setTabState"
        /\ tab' = SetBadge(h.tab, "ON")
        /\ Finally(h)
        /\ UNCHANGED <<activeTabs, injectedTabs, connectedPorts, stateInitialized,
                       storage, events>>
     \/ /\ h.pc = "activate.removeTabState"
        /\ Finally(h)
        /\ UNCHANGED <<activeTabs, injectedTabs, connectedPorts, stateInitialized,
                       storage, events, tab>>
  /\ UNCHANGED pageVars

\* deactivateInspectionMode(tabId), resumed after each of its awaits
DeactivateInspectionMode(h) ==
  /\ h.kind = "onClicked"
  /\ \/ /\ h.pc = "deactivate.sendMessage"
        /\ tab' = IF Receives(h.tab) THEN [tab EXCEPT ![h.tab].isActive = FALSE] ELSE tab
        /\ handlers' = (handlers \ {h}) \cup {[h EXCEPT !.pc = "removeCSS"]}
        /\ UNCHANGED <<activeTabs, injectedTabs, processingTabs, connectedPorts,
                       stateInitialized, storage, events>>
     \/ /\ h.pc = "removeCSS"
        /\ IF Rejects(h.tab) THEN Catch(h)
           ELSE /\ tab' = [tab EXCEPT ![h.tab].css = FALSE]
                /\ activeTabs' = activeTabs \ {h.tab}
                /\ storage' = Sync(activeTabs \ {h.tab}, injectedTabs)
                /\ handlers' = (handlers \ {h}) \cup
                     {[h EXCEPT !.pc = "deactivate.setTabState"]}
                /\ UNCHANGED <<injectedTabs, processingTabs, connectedPorts,
                               stateInitialized, events>>
     \/ /\ h.pc = "deactivate.setTabState"
        /\ tab' = SetBadge(h.tab, "")
        /\ Finally(h)
        /\ UNCHANGED <<activeTabs, injectedTabs, connectedPorts, stateInitialized,
                       storage, events>>
  /\ UNCHANGED pageVars

\* the catch clause after removeTabState: showErrorBadge, then finally
CatchClause(h) ==
  /\ h.kind = "onClicked" /\ h.pc = "catch.removeTabState"
  /\ tab' = SetBadge(h.tab, "X")
  /\ events' = events \cup {[kind |-> "badgeTimeout", tab |-> h.tab]}
  /\ Finally(h)
  /\ UNCHANGED <<activeTabs, injectedTabs, connectedPorts, stateInitialized, storage>>
  /\ UNCHANGED pageVars

\* the port.onDisconnect, onRemoved and onUpdated listeners after removeTabState
RemoveTabStateDone(h) ==
  /\ h.kind # "onClicked" /\ h.pc = "removeTabState"
  /\ tab' = IF h.kind = "onRemoved" THEN tab ELSE SetBadge(h.tab, "")
  /\ handlers' = handlers \ {h}
  /\ UNCHANGED <<activeTabs, injectedTabs, processingTabs, connectedPorts,
                 stateInitialized, storage, events>>
  /\ UNCHANGED pageVars

\* the timer of showErrorBadge fires
BadgeTimeout(t) ==
  /\ [kind |-> "badgeTimeout", tab |-> t] \in events
  /\ events' = events \ {[kind |-> "badgeTimeout", tab |-> t]}
  /\ tab' = SetBadge(t, "")
  /\ UNCHANGED <<activeTabs, injectedTabs, processingTabs, connectedPorts,
                 stateInitialized, storage, handlers>>
  /\ UNCHANGED pageVars

\* the worker's end of a keepalive port closes: the onDisconnect listener
\* registered in chrome.runtime.onConnect, up to its first await
PortDisconnected(t) ==
  /\ [kind |-> "onDisconnect", tab |-> t] \in events
  /\ \A h \in handlers : ~(h.kind = "onDisconnect" /\ h.tab = t)
  /\ events' = events \ {[kind |-> "onDisconnect", tab |-> t]}
  /\ connectedPorts' = connectedPorts \ {t}
  /\ Enter(handlers, Handler("onDisconnect", t))
  /\ UNCHANGED <<processingTabs, tab>>
  /\ UNCHANGED pageVars

\* a click handler of the tab no longer runs on the page it was clicked for
Disturbed(t) ==
  {IF h.kind = "onClicked" /\ h.tab = t THEN [h EXCEPT !.pre = ""] ELSE h : h \in handlers}

\* the port of the tab's content script, closing with its page
Closing(t) == IF tab[t].port THEN {[kind |-> "onDisconnect", tab |-> t]} ELSE {}

\* the tab navigates: the page is unloaded and chrome.tabs.onUpdated fires
\* with status 'loading'; the onUpdated listener runs up to its first await
Navigate(t, restricted) ==
  /\ tab[t].open
  /\ \A h \in handlers : ~(h.kind = "onUpdated" /\ h.tab = t)
  /\ tab' = [tab EXCEPT ![t] = [Unloaded(@) EXCEPT !.restricted = restricted]]
  /\ events' = events \cup Closing(t)
  /\ Enter(Disturbed(t), Handler("onUpdated", t))
  /\ UNCHANGED <<processingTabs, connectedPorts>>
  /\ UNCHANGED pageVars

\* the tab is closed: chrome.tabs.onRemoved listener up to its first await
CloseTab(t) ==
  /\ tab[t].open
  /\ tab' = [tab EXCEPT ![t] = [Unloaded(@) EXCEPT !.open = FALSE, !.badge = ""]]
  /\ events' = events \cup Closing(t)
  /\ connectedPorts' = connectedPorts \ {t}
  /\ Enter(Disturbed(t), Handler("onRemoved", t))
  /\ UNCHANGED processingTabs
  /\ UNCHANGED pageVars

\* setTimeout(connectToBackground, 100) fires; chrome.runtime.onConnect
\* registers the new port
Reconnect(t) ==
  /\ tab[t].loaded /\ tab[t].timer
  /\ tab' = [tab EXCEPT ![t] = Connected(@)]
  /\ connectedPorts' = connectedPorts \cup {t}
  /\ UNCHANGED <<activeTabs, injectedTabs, processingTabs, stateInitialized, storage,
                 handlers, events>>
  /\ UNCHANGED pageVars

\* the browser stops the idle service worker: its memory is lost, session
\* storage stays, and every keepalive port is disconnected
Restart ==
  /\ handlers = {} /\ events = {}
  /\ \A t \in Tabs : ~tab[t].timer /\ tab[t].ended < MaxDisconnects
  /\ activeTabs' = {}
  /\ injectedTabs' = {}
  /\ processingTabs' = {}
  /\ connectedPorts' = {}
  /\ stateInitialized' = FALSE
  /\ tab' = [t \in Tabs |-> IF tab[t].port THEN OnDisconnect(tab[t]) ELSE tab[t]]
  /\ UNCHANGED <<storage, handlers, events>>
  /\ UNCHANGED pageVars


(***************************************************************************)
(* Initial pages                                                           *)
(***************************************************************************)
Element(tagName, id, className, attrs, text) ==
  [tagName |-> tagName, id |-> id, className |-> className, attrs |-> attrs, text |-> text]

Bare(tagName) == Element(tagName, <<>>, <<>>, <<>>, <<>>)

T_DIV == <<"D", "I", "V">>

T_SPAN == <<"S", "P", "A", "N">>

T_HOST == <<"X", "-", "A">>

\* attribute profiles of the three page elements
Profiles ==
  { Bare(T_DIV),
    Element(T_SPAN, <<>>, <<>>, <<>>, <<"o", "k">>),
    Element(T_HOST, <<"h">>, <<>>, <<>>, <<>>),
    Element(T_DIV, <<"a">>, <<"p", "p", "-", "x", " ", "c">>,
            <<[name |-> <<"d", "a", "t", "a", "-", "t">>, value |-> <<"v">>],
              [name |-> S_aria_label, value |-> <<"x", " ", "y">>]>>, <<>>),
    Element(T_DIV, <<"a">>, <<"b">>,
            <<[name |-> <<"d", "a", "t", "a", "-", "t">>, value |-> <<"v">>]>>, <<>>),
    Element(T_SPAN, <<"a", ".", "b">>, <<>>, <<[name |-> S_aria_label, value |-> <<"x", " ", "y">>]>>, <<>>),
    Element(T_SPAN, <<>>, <<"c", ".", "d">>, <<>>, <<>>),
    Element(T_SPAN, <<>>, <<"c", " ", "d">>, <<>>, <<>>) }

\* where an element sits: child of an element, or child of a host's shadow root
ChildOf(p) == [parent |-> p, host |-> 0]

InShadowOf(h) == [parent |-> 0, host |-> h]

Place(e, at, hasShadow) ==
  [tagName |-> e.tagName, id |-> e.id, className |-> e.className, attrs |-> e.attrs,
   text |-> e.text, parent |-> at.parent, host |-> at.host, shadowRoot |-> hasShadow]

Page(e3, e4, e5, at4, at5) ==
  <<Place(Bare(<<"H", "T", "M", "L">>), ChildOf(0), FALSE),
    Place(Bare(<<"B", "O", "D", "Y">>), ChildOf(HTML), FALSE),
    Place(e3, ChildOf(BODY), 3 \in {at4.host, at5.host}),
    Place(e4, at4, 4 = at5.host),
    Place(e5, at5, FALSE)>>

InitialPages ==
  { Page(e3, e4, e5, at4, at5) :
      e3 \in Profiles, e4 \in Profiles, e5 \in Profiles,
      at4 \in {ChildOf(BODY), ChildOf(3), InShadowOf(3), ChildOf(0)},
      at5 \in {ChildOf(BODY), ChildOf(3), InShadowOf(3), ChildOf(4), InShadowOf(4), ChildOf(0)} }

EmptyCache == [n \in 1..5 |-> NoEntry]

Init ==
  /\ dom \in InitialPages
  /\ selectorCache = EmptyCache
  /\ formatCache = EmptyCache
  /\ call = Idle
  /\ domChanges = 0
  /\ S = InitialState
  /\ InitWorker

Next ==
  \/ \E el \in Nodes : GetPiercingSelector(el)
  \/ \E el \in Nodes : GetLocalSelector(el)
  \/ \E el \in Nodes : GetLightDOMSelector(el)
  \/ \E el \in Nodes : QueryDeep(el)
  \/ \E selector \in DeepSelectors : QueryDeepOn(selector)
  \/ \E el \in Nodes : FindAllShadowRoots(el)
  \/ \E el \in Nodes : GetDomPath(el)
  \/ \E el \in Nodes : GetShadowDepth(el)
  \/ Return

Spec == Init /\ [][Next]_vars

(***************************************************************************)
(* The two deep queries on the same pages                                  *)
(***************************************************************************)
NextQuery ==
  \/ \E root \in {Document} \cup {ShadowRootOf(h) : h \in {n \in Nodes : dom[n].shadowRoot}},
         selector \in DeepSelectors : QueryDeepAll(root, selector)
  \/ Return

SpecQuery == Init /\ [][NextQuery]_vars

(***************************************************************************)
(* The facade on pages that do not change                                  *)
(***************************************************************************)
FacadePages ==
  { Page(e3, e4, e5, at4, at5) :
      e3 \in {p \in Profiles : p.tagName # T_SPAN}, e4 \in Profiles,
      e5 \in {Bare(T_SPAN), Element(T_SPAN, <<"a", ".", "b">>, <<>>, <<>>, <<>>)},
      at4 \in {ChildOf(BODY), InShadowOf(3)},
      at5 \in {ChildOf(BODY), ChildOf(4), InShadowOf(4)} }

InitFacade ==
  /\ dom \in FacadePages
  /\ selectorCache = EmptyCache
  /\ formatCache = EmptyCache
  /\ call = Idle
  /\ domChanges = 0
  /\ S = InitialState
  /\ InitWorker

NextFacade ==
  \/ \E el \in Nodes : GetOptimalSelector(el)
  \/ \E el \in Nodes : GetAllSelectorFormats(el)
  \/ \E el \in Nodes : GetPiercingSelector(el)
  \/ Return

SpecFacade == InitFacade /\ [][NextFacade]_vars

(***************************************************************************)
(* The facade on a page that changes between calls                         *)
(***************************************************************************)
DynIds == {<<"a">>, <<"a", ".", "b">>}

DynPages ==
  { Page(e3, e4, Bare(T_SPAN), at4, at5) :
      e3 \in {Bare(T_DIV), Element(T_DIV, <<"a">>, <<>>, <<>>, <<>>)},
      e4 \in {Bare(T_HOST), Bare(T_DIV)},
      at4 \in {ChildOf(BODY), ChildOf(3)},
      at5 \in {InShadowOf(4), ChildOf(4)} }

InitDyn ==
  /\ dom \in DynPages
  /\ selectorCache = EmptyCache
  /\ formatCache = EmptyCache
  /\ call = Idle
  /\ domChanges = 0
  /\ S = InitialState
  /\ InitWorker

NextDyn ==
  \/ \E el \in Nodes : GetOptimalSelector(el)
  \/ \E el \in Nodes : GetAllSelectorFormats(el)
  \/ \E n \in Nodes \ {HTML}, v \in DynIds : SetId(n, v)
  \/ \E n \in Nodes \ {HTML, BODY} : Remove(n)
  \/ Return

SpecDyn == InitDyn /\ [][NextDyn]_vars

(***************************************************************************)
(* The inspection UI on a page that does not change                        *)
(***************************************************************************)
\* body > (div > span | div, span), pinpoint-root; the div's id may look internal
UIPages ==
  { <<Place(Bare(<<"H", "T", "M", "L">>), ChildOf(0), FALSE),
      Place(Bare(<<"B", "O", "D", "Y">>), ChildOf(HTML), FALSE),
      Place(Element(T_DIV, id, <<>>, <<>>, <<>>), ChildOf(BODY), FALSE),
      Place(Bare(T_SPAN), at4, FALSE),
      Place(Bare(<<"P", "I", "N", "P", "O", "I", "N", "T", "-", "R", "O", "O", "T">>),
            ChildOf(BODY), TRUE)>> :
      id \in {<<>>, <<"p", "p", "-", "w">>, <<"p", "p", "-", "p", "a", "n", "e", "l">>},
      at4 \in {ChildOf(3), ChildOf(BODY)} }

InitUI ==
  /\ dom \in UIPages
  /\ selectorCache = EmptyCache
  /\ formatCache = EmptyCache
  /\ call = Idle
  /\ domChanges = 0
  /\ S = ActiveState
  /\ InitWorker

NextUI ==
  \/ \E target \in EventTargets, altKey \in BOOLEAN : HandleMouseMove(target, altKey)
  \/ ProcessMouseMove
  \/ \E key \in ArrowKeys : HandleKeyDown(key)
  \/ \E target \in EventTargets, altKey \in BOOLEAN : HandleClick(target, altKey)
  \/ \E index \in 0..4 : HandleCrumbClick(index)
  \/ ClosePanel
  \/ InvalidateContext

SpecUI == InitUI /\ [][NextUI]_vars

(***************************************************************************)
(* The detail panel on a page whose script removes elements                *)
(***************************************************************************)
NextObserver ==
  \/ \E target \in EventTargets, altKey \in BOOLEAN : HandleClick(target, altKey)
  \/ \E index \in 0..4 : HandleCrumbClick(index)
  \/ ClosePanel
  \/ \E n \in Nodes \ {HTML, BODY, ShadowHost} : Remove(n)
  \/ ElementObserverCallback

SpecObserver == InitUI /\ [][NextObserver]_vars

(***************************************************************************)
(* Activation, deactivation and the mouse-move frame callbacks             *)
(***************************************************************************)
\* the script is loaded and not yet activated: no <pinpoint-root> in the page
InitRaf ==
  /\ dom \in {[p EXCEPT ![ShadowHost].parent = 0] : p \in UIPages}
  /\ selectorCache = EmptyCache
  /\ formatCache = EmptyCache
  /\ call = Idle
  /\ domChanges = 0
  /\ S = InitialState
  /\ InitWorker

NextRaf ==
  \/ \E action \in {"ACTIVATE", "DEACTIVATE"} : OnMessage(action)
  \/ \E target \in EventTargets, altKey \in BOOLEAN : HandleMouseMove(target, altKey)
  \/ ProcessMouseMove
  \/ InvalidateContext

SpecRaf == InitRaf /\ [][NextRaf]_vars

(***************************************************************************)
(* Shadow hosts nested two deep                                            *)
(***************************************************************************)
\* body > x-a with a shadow root holding x-a with a shadow root holding span;
\* each host has an id or not, no class, an internal class first or a class to
\* escape, and no attribute, one data-* attribute or two after an ARIA one
HostPages ==
  { <<Place(Bare(<<"H", "T", "M", "L">>), ChildOf(0), FALSE),
      Place(Bare(<<"B", "O", "D", "Y">>), ChildOf(HTML), FALSE),
      Place(Element(T_HOST, id3, class3, attrs3, <<>>), ChildOf(BODY), TRUE),
      Place(Element(T_HOST, id4, class4, attrs4, <<>>), InShadowOf(3), TRUE),
      Place(Bare(T_SPAN), InShadowOf(4), FALSE)>> :
      id3 \in {<<>>, <<"h">>}, id4 \in {<<>>, <<"h">>},
      class3 \in {<<>>, <<"p", "p", "-", "x", " ", "c">>, <<" ", "c", ".", "d", " ">>},
      class4 \in {<<>>, <<"p", "p", "-", "x", " ", "c">>, <<" ", "c", ".", "d", " ">>},
      attrs3 \in {<<>>, <<[name |-> <<"d", "a", "t", "a", "-", "t">>, value |-> <<"v">>]>>,
                  <<[name |-> S_aria_label, value |-> <<"x">>],
                    [name |-> <<"d", "a", "t", "a", "-", "u">>, value |-> <<"w", " ", "z">>],
                    [name |-> <<"d", "a", "t", "a", "-", "t">>, value |-> <<"v">>]>>},
      attrs4 \in {<<>>, <<[name |-> <<"d", "a", "t", "a", "-", "t">>, value |-> <<"v">>]>>,
                  <<[name |-> S_aria_label, value |-> <<"x">>],
                    [name |-> <<"d", "a", "t", "a", "-", "u">>, value |-> <<"w", " ", "z">>],
                    [name |-> <<"d", "a", "t", "a", "-", "t">>, value |-> <<"v">>]>>} }

InitHosts ==
  /\ dom \in HostPages
  /\ selectorCache = EmptyCache
  /\ formatCache = EmptyCache
  /\ call = Idle
  /\ domChanges = 0
  /\ S = InitialState
  /\ InitWorker

NextHosts ==
  \/ \E el \in Nodes : GetPiercingSelector(el)
  \/ Return

SpecHosts == InitHosts /\ [][NextHosts]_vars

(***************************************************************************)
(* The light-DOM resolver and getDomPath on deep and on branching trees    *)
(***************************************************************************)
\* html > body > div > ... > div, thirteen elements below body, each the only
\* child of the one before; the elements at the positions of ids (body for 2)
\* carry id "a", every element below body carries className; the first element
\* below body is a div or a span
DeepPages ==
  { [n \in 1..15 |->
       IF n = HTML THEN Place(Bare(<<"H", "T", "M", "L">>), ChildOf(0), FALSE)
       ELSE IF n = BODY
         THEN Place(Element(<<"B", "O", "D", "Y">>, IF n \in ids THEN <<"a">> ELSE <<>>,
                            <<>>, <<>>, <<>>), ChildOf(HTML), FALSE)
       ELSE Place(Element(IF n = 3 THEN top ELSE T_DIV, IF n \in ids THEN <<"a">> ELSE <<>>,
                          className, <<>>, <<>>),
                  ChildOf(n - 1), FALSE)] :
      top \in {T_DIV, T_SPAN},
      ids \in {{}, {2}, {3}, {9}, {10}, {12}, {9, 12}, {11, 12}, {15}},
      className \in {<<>>, <<"p", "p", "-", "x", " ", "c">>, <<"p", "p", "-", "x">>,
                     <<"c", " ", "d">>} }

\* body > div#a > (div|span > span | span), span, span: an ancestor with an id
\* over three spans, no other id, class, attribute or text
AnchorPages ==
  { <<Place(Bare(<<"H", "T", "M", "L">>), ChildOf(0), FALSE),
      Place(Bare(<<"B", "O", "D", "Y">>), ChildOf(HTML), FALSE),
      Place(Element(T_DIV, <<"a">>, <<>>, <<>>, <<>>), ChildOf(BODY), FALSE),
      Place(Bare(tag4), ChildOf(3), FALSE),
      Place(Bare(T_SPAN), at5, FALSE),
      Place(Bare(T_SPAN), ChildOf(3), FALSE),
      Place(Bare(T_SPAN), ChildOf(3), FALSE)>> :
      tag4 \in {T_DIV, T_SPAN}, at5 \in {ChildOf(3), ChildOf(4)} }

InitDeep ==
  /\ dom \in DeepPages \cup AnchorPages
  /\ selectorCache = EmptyCache
  /\ formatCache = EmptyCache
  /\ call = Idle
  /\ domChanges = 0
  /\ S = InitialState
  /\ InitWorker

NextDeep ==
  \/ \E el \in Nodes : GetLightDOMSelector(el)
  \/ \E el \in Nodes : GetDomPath(el)
  \/ Return

SpecDeep == InitDeep /\ [][NextDeep]_vars

(***************************************************************************)
(* The service worker, one tab and its content script                      *)
(***************************************************************************)
InitBackground ==
  /\ dom = CHOOSE p \in InitialPages : TRUE
  /\ selectorCache = EmptyCache
  /\ formatCache = EmptyCache
  /\ call = Idle
  /\ domChanges = 0
  /\ S = InitialState
  /\ activeTabs = {}
  /\ injectedTabs = {}
  /\ processingTabs = {}
  /\ connectedPorts = {}
  /\ stateInitialized = FALSE
  /\ storage = Sync({}, {})
  /\ handlers = {}
  /\ events = {}
  /\ tab \in [Tabs -> {NewTab(restricted) : restricted \in BOOLEAN}]

NextBackground ==
  \/ \E t \in Tabs : Click(t)
  \/ \E h \in handlers : EnsureStateInitialized(h)
  \/ \E h \in handlers : InjectScript(h)
  \/ \E h \in handlers : ActivateInspectionMode(h)
  \/ \E h \in handlers : DeactivateInspectionMode(h)
  \/ \E h \in handlers : CatchClause(h)
  \/ \E h \in handlers : RemoveTabStateDone(h)
  \/ \E t \in Tabs : BadgeTimeout(t)
  \/ \E t \in Tabs : PortDisconnected(t)
  \/ \E t \in Tabs, restricted \in BOOLEAN : Navigate(t, restricted)
  \/ \E t \in Tabs : CloseTab(t)
  \/ \E t \in Tabs : Reconnect(t)
  \/ Restart

SpecBackground == InitBackground /\ [][NextBackground]_vars

(***************************************************************************)
(* Properties                                                              *)
(***************************************************************************)
Contains(s, sub) ==
  \E i \in 1..(Len(s) - Len(sub) + 1) : SubSeq(s, i, i + Len(sub) - 1) = sub

\* attached to the document through every enclosing shadow root
RECURSIVE Attached(_)
Attached(n) ==
  LET root == getRootNode(n) IN
  IF root.kind = "document" THEN TRUE
  ELSE IF root.kind = "shadow" THEN Attached(root.node)
  ELSE FALSE

\* the fragment matches exactly n in root
MatchesOnly(root, sel, n) ==
  LET r == querySelectorAll(root, sel) IN ~r.threw /\ r.list = <<n>>

\* every hop's generated fragment is unique in its own root
RECURSIVE HopsUnique(_)
HopsUnique(n) ==
  LET root == getRootNode(n) IN
  IF IsShadowRoot(root)
    THEN /\ MatchesOnly(root, getLocalSelector(n, root), n)
         /\ MatchesOnly(LocalRootOf(root.node), getHostSelector(root.node), root.node)
         /\ HopsUnique(root.node)
    ELSE MatchesOnly(Document, getLocalSelector(n, Document), n)

\* C1: for an element attached inside one or more nested open shadow roots whose
\* hop fragments are each unique in their root, queryDeep(document, playwright
\* string generated for it) returns the element itself.
C1_RoundTrip ==
  (call.op = "queryDeep" /\ Attached(call.el) /\ getShadowDepth(call.el) >= 1
     /\ HopsUnique(call.el))
    => call.result = call.el

\* C2: for an element in the shadow root of a light-DOM host, playwright is exactly
\* '<host fragment> >> <local fragment>', depth is 1 and puppeteer is the pierce/
\* prefix followed by a string holding both fragments.
C2_SingleBoundary ==
  (call.op = "getPiercingSelector" /\ IsShadowRoot(getRootNode(call.el))
     /\ getRootNode(getRootNode(call.el).node) = Document)
    => LET root == getRootNode(call.el)
           hostFragment == getHostSelector(root.node)
           localFragment == getLocalSelector(call.el, root)
       IN /\ call.result.playwright = hostFragment \o S_arrow \o localFragment
          /\ call.result.depth = 1
          /\ startsWith(call.result.puppeteer, S_pierce)
          /\ Contains(call.result.puppeteer, hostFragment)
          /\ Contains(call.result.puppeteer, localFragment)

\* number of shadow roots between n and the top of its composed tree
RECURSIVE Crossings(_)
Crossings(n) ==
  IF dom[Top(n)].host = 0 THEN 0 ELSE 1 + Crossings(dom[Top(n)].host)

\* C8: getPiercingSelector(el).depth is the number of boundary segments of the
\* returned path, and equals getShadowDepth(el), the number of shadow roots crossed
\* walking from el outwards (0 for a light-DOM element).
C8_DepthIsCrossings ==
  call.op = "getPiercingSelector"
    => /\ call.result.depth
            = Cardinality({i \in DOMAIN call.result.path : call.result.path[i].isShadowBoundary})
       /\ call.result.depth = getShadowDepth(call.el)
       /\ call.result.depth = Crossings(call.el)

C8_Witness ==
  /\ call.op = "getPiercingSelector"
  /\ call.result.depth = 2
  /\ getShadowDepth(call.el) = 2

\* the fragment matches exactly one element of root
UniqueIn(root, sel) == \E n \in Nodes : MatchesOnly(root, sel, n)

\* no candidate of the list passes the uniqueness probe in root
NonePasses(cands, root) == \A i \in DOMAIN cands : ~UniqueIn(root, cands[i])

\* result is the first candidate of the list that passes the probe in root
FirstPassing(cands, root, result) ==
  \E i \in DOMAIN cands :
    /\ cands[i] = result
    /\ UniqueIn(root, result)
    /\ \A j \in 1..(i - 1) : ~UniqueIn(root, cands[j])

LocalTiers == <<"id", "data", "aria", "class", "structural">>

LocalTierCandidates(el, tier) ==
  CASE tier = "id" -> LocalIdCandidates(el)
    [] tier = "data" -> DataCandidates(el)
    [] tier = "aria" -> LocalAriaCandidates(el)
    [] tier = "class" -> LocalClassCandidates(el)
    [] OTHER -> <<>>

LightTiers == <<"id", "data", "aria", "class", "text", "anchor", "structural">>

LightTierCandidates(el, tier) ==
  CASE tier = "id" -> IdCandidates(el)
    [] tier = "data" -> DataCandidates(el)
    [] tier = "aria" -> AriaCandidates(el, ARIA_ATTRIBUTES)
    [] tier = "class" -> ClassCandidates(el)
    [] tier = "text" -> TextCandidates(el)
    [] tier = "anchor" -> AnchoredFrom(el, dom[el].parent, <<lowerTag(el)>>, 0)
    [] OTHER -> <<>>

\* C3: a fragment getLocalSelector(el, root) returns from the id, data-*, ARIA or
\* class tier, for el inside root, matches exactly one element of root and that
\* element is el; the structural fallback is returned only when every candidate of
\* those four tiers failed the uniqueness probe in root.
C3_LocalFragmentIsTarget ==
  (call.op = "getLocalSelector" /\ getRootNode(call.el) = call.root)
    => /\ call.tier # "structural" => MatchesOnly(call.root, call.result, call.el)
       /\ call.tier = "structural"
            => \A k \in 1..4 : NonePasses(LocalTierCandidates(call.el, LocalTiers[k]), call.root)

\* the returned tier is the first one with a passing candidate, and the returned
\* fragment is the first passing candidate of that tier
TierRespected(tiers, Candidates(_, _), el, root, tier, result) ==
  /\ IndexOf(tiers, tier) > 0
  /\ \A k \in 1..(IndexOf(tiers, tier) - 1) : NonePasses(Candidates(el, tiers[k]), root)
  /\ tier # "structural" => FirstPassing(Candidates(el, tier), root, result)

\* C4: both resolvers try their tiers in the order id, data-* (declaration order),
\* ARIA (list order), class, then (light DOM only) text and anchored ancestor, then
\* structural, and return the first candidate of the first tier that passes the
\* uniqueness probe: no lower-tier fragment is returned while a higher tier has a
\* candidate matching exactly one element of the root.
C4_TierOrder ==
  /\ call.op = "getLocalSelector"
       => TierRespected(LocalTiers, LocalTierCandidates, call.el, call.root, call.tier,
                        call.result)
  /\ call.op = "getLightDOMSelector"
       => TierRespected(LightTiers, LightTierCandidates, call.el, Document, call.tier,
                        call.result)

C4_Witness ==
  /\ call.op = "getLightDOMSelector"
  /\ call.tier = "aria"
  /\ ~NonePasses(ClassCandidates(call.el), Document)

\* number of elements of the page carrying the id
IdCount(id) == Cardinality({n \in Nodes : dom[n].id = id})

\* C5: for a light-DOM element whose id is unique in the page, getOptimalSelector
\* returns exactly '#' followed by the CSS-escaped id.
C5_UniqueIdWins ==
  (call.op = "getOptimalSelector" /\ getRootNode(call.el) = Document
     /\ dom[call.el].id # <<>> /\ IdCount(dom[call.el].id) = 1)
    => call.result = <<"#">> \o CssEscape(dom[call.el].id)

\* C6: getOptimalSelector called on an element whose id is carried by another
\* element of the document never returns the bare '#id' form.
C6_DuplicateIdNeverBare ==
  (call.op = "getOptimalSelector" /\ getRootNode(call.el) = Document
     /\ dom[call.el].id # <<>>
     /\ \E m \in Nodes \ {call.el} :
          getRootNode(m) = Document /\ dom[m].id = dom[call.el].id)
    => /\ call.result # <<"#">> \o dom[call.el].id
       /\ call.result # <<"#">> \o CssEscape(dom[call.el].id)

\* the strings a call hands back
ResultStrings ==
  IF call.op = "getOptimalSelector" THEN {call.result}
  ELSE IF call.op \in {"getAllSelectorFormats", "getPiercingSelector"}
    THEN {call.result.playwright, call.result.puppeteer, call.result.css, call.result.custom}
  ELSE {}

\* the id and class names of el that CSS.escape would change
EscapableNames(el) ==
  {v \in ({dom[el].id} \cup Range(ClassTokens(el))) \ {<<>>} : CssEscape(v) # v}

\* C7: no string returned by getOptimalSelector, getAllSelectorFormats or
\* getPiercingSelector embeds an id or class name of the element raw ('#' or '.'
\* followed by the unescaped value) when CSS.escape would have changed it.
C7_NoRawNames ==
  \A s \in ResultStrings : \A v \in EscapableNames(call.el) :
    ~Contains(s, <<"#">> \o v) /\ ~Contains(s, <<".">> \o v)

\* C9: once a facade entry point has computed a value for el, a later call for el
\* is a cache hit returning that value, and no step changes an existing entry.
C9_FirstComputationWins ==
  [][/\ \A n \in Nodes : /\ selectorCache[n].has => selectorCache'[n] = selectorCache[n]
                         /\ formatCache[n].has => formatCache'[n] = formatCache[n]
     /\ (call'.op = "getOptimalSelector" /\ call.op = "none" /\ selectorCache[call'.el].has)
          => call'.hit /\ call'.result = selectorCache[call'.el].value
     /\ (call'.op = "getAllSelectorFormats" /\ call.op = "none" /\ formatCache[call'.el].has)
          => call'.hit /\ call'.result = formatCache[call'.el].value]_vars

\* C10: on an element in a shadow root getOptimalSelector returns the playwright
\* string of the piercing result and getAllSelectorFormats the piercing result;
\* on an element of the document both use the light-DOM fragment, which
\* getAllSelectorFormats returns in playwright, puppeteer, css and custom, depth 0.
C10_Dispatch ==
  /\ call.op = "getOptimalSelector"
       => call.result = IF IsShadowRoot(getRootNode(call.el))
                          THEN formatPlaywrightSelector(buildShadowPath(call.el))
                          ELSE LightResolve(call.el).selector
  /\ call.op = "getAllSelectorFormats"
       => IF IsShadowRoot(getRootNode(call.el))
            THEN call.result = getPiercingSelector(call.el)
            ELSE /\ \A f \in {"playwright", "puppeteer", "css", "custom"} :
                      call.result[f] = LightResolve(call.el).selector
                 /\ call.result.depth = 0

C10_Witness ==
  /\ call.op = "getAllSelectorFormats"
  /\ IsShadowRoot(getRootNode(call.el))
  /\ call.result.depth = 1
  /\ ~call.hit

\* C11: for every element (body and html included, attached or detached, light or
\* shadow DOM) getOptimalSelector, getAllSelectorFormats and getLocalSelector
\* return a non-empty fragment.
C11_AlwaysFragment ==
  /\ call.op \in {"getOptimalSelector", "getLocalSelector"} => call.result # <<>>
  /\ call.op = "getAllSelectorFormats"
       => \A f \in {"playwright", "puppeteer", "css", "custom"} : call.result[f] # <<>>

\* the probe of the fragment in root throws
Throws(root, sel) == querySelectorAll(root, sel).threw

\* every candidate the light-DOM resolver probes, in probing order
RECURSIVE LightCandidatesFrom(_, _)
LightCandidatesFrom(el, k) ==
  IF k > Len(LightTiers) THEN <<>>
  ELSE LightTierCandidates(el, LightTiers[k]) \o LightCandidatesFrom(el, k + 1)

\* every candidate getLocalSelector probes, in probing order
RECURSIVE LocalCandidatesFrom(_, _)
LocalCandidatesFrom(el, k) ==
  IF k > Len(LocalTiers) THEN <<>>
  ELSE LocalTierCandidates(el, LocalTiers[k]) \o LocalCandidatesFrom(el, k + 1)

\* a candidate whose probe throws is passed over: the result is the first later
\* candidate that passes the probe, or the structural fallback when there is none
ThrowsPassedOver(cands, root, tier, result) ==
  \A i \in DOMAIN cands :
    (Throws(root, cands[i]) /\ \A j \in 1..(i - 1) : ~UniqueIn(root, cands[j]))
      => IF \E j \in (i + 1)..Len(cands) : UniqueIn(root, cands[j])
           THEN /\ tier # "structural"
                /\ FirstPassing(cands, root, result)
                /\ result # cands[i]
           ELSE tier = "structural"

\* C12: a candidate whose uniqueness probe throws is treated as not unique and
\* rejected; resolution continues with the next candidate or tier and the call
\* returns a value.
C12_ProbeThrowRejected ==
  /\ call.op = "getLightDOMSelector"
       => ThrowsPassedOver(LightCandidatesFrom(call.el, 1), Document, call.tier, call.result)
  /\ call.op = "getLocalSelector"
       => ThrowsPassedOver(LocalCandidatesFrom(call.el, 1), call.root, call.tier, call.result)

C12_Witness ==
  /\ call.op = "getLightDOMSelector"
  /\ call.tier = "anchor"
  /\ \E i \in DOMAIN TextCandidates(call.el) : Throws(Document, TextCandidates(call.el)[i])

\* the pieces of a path-combinator string
Pieces(s) == Const(split(s, S_arrow), LAMBDA pieces : [i \in DOMAIN pieces |-> trim(pieces[i])])

\* the root piece k is resolved in: the document for the first piece, then the
\* shadow root of the previous piece's match; kind "none" when there is no such root
RECURSIVE RootOfPiece(_, _)
RootOfPiece(pieces, k) ==
  IF k = 1 THEN Document
  ELSE LET root == RootOfPiece(pieces, k - 1) IN
       IF root.kind = "none" THEN root
       ELSE LET r == querySelectorAll(root, pieces[k - 1]) IN
            IF r.threw \/ r.list = <<>> THEN [kind |-> "none", node |-> 0]
            ELSE IF ~dom[r.list[1]].shadowRoot THEN [kind |-> "none", node |-> 0]
            ELSE ShadowRootOf(r.list[1])

\* C13: queryDeep(document, s) resolves the pieces of s left to right, each in the
\* shadow root of the previous match, and returns null (0) when a piece has no
\* match, is malformed, or a non-final match has no shadow root; otherwise it
\* returns the first match of the last piece.
C13_QueryDeepNoMatch ==
  call.op \in {"queryDeep", "queryDeepOn"}
    => LET pieces == Pieces(call.selector)
           root == RootOfPiece(pieces, Len(pieces))
       IN IF root.kind = "none" THEN call.result = 0
          ELSE LET r == querySelectorAll(root, pieces[Len(pieces)]) IN
               IF r.threw \/ r.list = <<>> THEN call.result = 0
               ELSE call.result = r.list[1]

C13_Witness ==
  /\ call.op = "queryDeepOn"
  /\ Len(Pieces(call.selector)) = 2
  /\ call.result = 0
  /\ LET r == querySelectorAll(Document, Pieces(call.selector)[1]) IN
       ~r.threw /\ r.list # <<>> /\ ~dom[r.list[1]].shadowRoot

\* n lies under root, through any number of nested shadow roots
RECURSIVE Inside(_, _)
Inside(n, root) ==
  \/ getRootNode(n) = root
  \/ IsShadowRoot(getRootNode(n)) /\ Inside(getRootNode(n).node, root)

\* C14: findAllShadowRoots(root) returns every shadow root reachable from root
\* through any depth of nested hosts, each exactly once, and nothing else.
C14_AllShadowRootsOnce ==
  call.op = "findAllShadowRoots"
    => /\ Range(call.result)
            = {ShadowRootOf(h) : h \in {n \in Nodes : dom[n].shadowRoot /\ Inside(n, call.root)}}
       /\ Cardinality(Range(call.result)) = Len(call.result)

C14_Witness ==
  /\ call.op = "findAllShadowRoots"
  /\ call.root = Document
  /\ Len(call.result) = 2
  /\ Inside(call.result[2].node, call.result[1])

\* the fragments a resolver call hands back
ResolverStrings ==
  IF call.op \in {"getLocalSelector", "getLightDOMSelector"} THEN {call.result}
  ELSE IF call.op = "getPiercingSelector"
    THEN {call.result.playwright, call.result.puppeteer, call.result.css, call.result.custom}
  ELSE {}

\* C15: no fragment generated by a resolver contains a class name that starts with
\* the reserved prefix 'pp-'.
C15_NoInternalClass ==
  \A s \in ResolverStrings : ~Contains(s, <<".", "p", "p", "-">>)

\* C16: neither S.hoveredElement nor S.capturedElement is an element that
\* isPinpointElement classifies as internal (id starting with 'pp-' or inside
\* #pp-panel).
C16_NeverInternalTarget ==
  /\ S.hoveredElement # 0 => ~isPinpointElement(S.hoveredElement)
  /\ S.capturedElement # 0 => ~isPinpointElement(S.capturedElement)

\* C17: a facade call for element A leaves the DOM and the cache entries of every
\* other element, which with the DOM determine the values returned for them, as
\* they were; of A's entries it touches only the one of the called entry point.
C17_OnlyOwnEntry ==
  [][(call.op = "none" /\ call'.op \in {"getOptimalSelector", "getAllSelectorFormats"})
       => /\ dom' = dom
          /\ \A n \in Nodes \ {call'.el} :
               selectorCache'[n] = selectorCache[n] /\ formatCache'[n] = formatCache[n]
          /\ call'.op = "getOptimalSelector" => formatCache' = formatCache
          /\ call'.op = "getAllSelectorFormats" => selectorCache' = selectorCache]_vars

C17_Witness ==
  /\ call.op = "getOptimalSelector"
  /\ ~call.hit
  /\ \E n \in Nodes \ {call.el} : selectorCache[n].has /\ selectorCache[n].value # <<>>

\* the fragments of the segments from k on, separated by single spaces
RECURSIVE SpaceJoined(_, _)
SpaceJoined(path, k) ==
  IF k > Len(path) THEN <<>>
  ELSE IF k = Len(path) THEN path[k].selector
  ELSE path[k].selector \o <<" ">> \o SpaceJoined(path, k + 1)

\* C18: css is the fragments of all segments in path order joined by single
\* spaces; puppeteer is 'pierce/' followed by css when the path has a boundary
\* segment and css itself when it has none.
C18_PrefixDialect ==
  call.op = "getPiercingSelector"
    => /\ call.result.css = SpaceJoined(call.result.path, 1)
       /\ call.result.puppeteer
            = IF \E i \in DOMAIN call.result.path : call.result.path[i].isShadowBoundary
                THEN <<"p", "i", "e", "r", "c", "e", "/">> \o call.result.css
                ELSE call.result.css

C18_Witness ==
  /\ call.op = "getPiercingSelector"
  /\ Len(call.result.path) = 1
  /\ call.result.puppeteer = call.result.css
  /\ call.result.css # <<>>

\* s holds t at position pos
HasAt(s, pos, t) == pos + Len(t) - 1 <= Len(s) /\ SubSeq(s, pos, pos + Len(t) - 1) = t

\* s from pos on is the segments from k on in bracket notation: each fragment,
\* after at most one space; '::shadow(' right after a boundary fragment, which
\* must find no bracket open; ')' right after the last fragment before the next
\* boundary segment or the end; nothing after the last segment, no bracket open
RECURSIVE Bracketed(_, _, _, _, _)
Bracketed(s, pos, path, k, open) ==
  IF k > Len(path) THEN pos = Len(s) + 1 /\ ~open
  ELSE LET at == IF HasAt(s, pos, <<" ">> \o path[k].selector) /\ ~HasAt(s, pos, path[k].selector)
                   THEN pos + 1 ELSE pos
           after == at + Len(path[k].selector)
           closes == open /\ (k = Len(path) \/ path[k + 1].isShadowBoundary)
       IN /\ HasAt(s, at, path[k].selector)
          /\ IF path[k].isShadowBoundary
               THEN /\ ~open
                    /\ HasAt(s, after, <<":", ":", "s", "h", "a", "d", "o", "w", "(">>)
                    /\ Bracketed(s, after + 9, path, k + 1, TRUE)
               ELSE IF closes
                 THEN HasAt(s, after, <<")">>) /\ Bracketed(s, after + 1, path, k + 1, FALSE)
               ELSE Bracketed(s, after, path, k + 1, open)

\* C19: for every path buildShadowPath produces, the bracket notation opens one
\* '::shadow(' per boundary segment, right after its fragment, and closes it once
\* before the next boundary segment or the end of the string; the number of
\* brackets is the crossing count and none is left open.
C19_BracketsBalanced ==
  call.op = "getPiercingSelector"
    => /\ Bracketed(call.result.custom, 1, call.result.path, 1, FALSE)
       /\ Cardinality({i \in DOMAIN call.result.path : call.result.path[i].isShadowBoundary})
            = Crossings(call.el)

C19_Witness ==
  /\ call.op = "getPiercingSelector"
  /\ Crossings(call.el) = 2
  /\ Len(call.result.path) = 5

\* el and its parentElement chain, leaf first, ending before document.body
RECURSIVE ChainBelowBody(_)
ChainBelowBody(n) ==
  IF n = 0 \/ n = BODY THEN <<>> ELSE <<n>> \o ChainBelowBody(dom[n].parent)

\* C20: getDomPath(el) has one entry per element of the parent chain from el up
\* to, excluding, document.body, ordered root to leaf; the entry at (0-based)
\* index i has depth length - 1 - i; for document.body the result is empty.
C20_DomPathDepths ==
  call.op = "getDomPath"
    => LET chain == ChainBelowBody(call.el)
           path == call.result
       IN /\ Len(path) = Len(chain)
          /\ \A i \in DOMAIN path :
               /\ path[i].depth = Len(path) - i
               /\ startsWith(path[i].label, lowerTag(chain[Len(path) - i + 1]))
          /\ call.el = BODY => path = <<>>

C20_Witness ==
  /\ call.op = "getDomPath"
  /\ Len(call.result) = 3
  /\ call.result[1].depth = 2
  /\ call.result[3].depth = 0
  /\ lowerTag(call.el) # lowerTag(dom[dom[call.el].parent].parent)

\* the label the rule gives n: tag, then '#id', else '.' and the first class not
\* starting with 'pp-', else nothing
RuleLabel(n) ==
  LET tokens == ClassTokens(n)
      public == {k \in DOMAIN tokens : tokens[k] # <<>> /\ ~startsWith(tokens[k], <<"p", "p", "-">>)}
  IN lowerTag(n)
       \o (IF dom[n].id # <<>> THEN <<"#">> \o dom[n].id
           ELSE IF public = {} THEN <<>>
           ELSE <<".">> \o tokens[CHOOSE k \in public : \A j \in public : k <= j])

\* C21: each getDomPath label is the lowercase tag followed by '#id' when the
\* element has an id, otherwise by '.' and its first class not starting with 'pp-'
\* when there is one, otherwise by nothing.
C21_DomPathLabels ==
  call.op = "getDomPath"
    => LET chain == ChainBelowBody(call.el) IN
       /\ Len(call.result) = Len(chain)
       /\ \A i \in DOMAIN call.result :
            call.result[i].label = RuleLabel(chain[Len(chain) - i + 1])

C21_Witness ==
  /\ call.op = "getDomPath"
  /\ Len(call.result) = 13
  /\ call.result[1].label = <<"d", "i", "v", "#", "a">>
  /\ dom[3].className # <<>>
  /\ call.result[2].label = <<"d", "i", "v", ".", "c">>
  /\ ClassTokens(4)[1] = <<"p", "p", "-", "x">>

\* C22: mouse moves are coalesced per animation frame under any interleaving
\* of mousemove, frame callback, init and destroy: at most one
\* processMouseMove callback is scheduled at a time, and S.rafPending is true
\* exactly while one is
C22_OneFramePending ==
  /\ S.rafQueue <= 1
  /\ S.rafPending <=> S.rafQueue = 1

\* C23: while the detail panel shows a captured element that is no longer
\* contained in the document, once the mutation records have been delivered
\* the detached warning is shown and the observer is disconnected
C23_DetachedWarned ==
  (/\ S.isDetailPanelOpen
   /\ S.capturedElement # 0
   /\ ~DocumentContains(S.capturedElement)
   /\ ~S.observerRecords)
  => (S.detachedWarning /\ S.elementObserver = 0)

\* C24: for an element attached to the document at shadow depth d the path of
\* buildShadowPath has exactly 2d+1 segments: one non-boundary segment, then d
\* pairs of a boundary segment and a non-boundary segment, so no two boundary
\* segments are adjacent and the last one is none; playwright splits on ' >> '
\* into exactly d+1 non-empty pieces.
C24_PathShape ==
  (call.op = "getPiercingSelector" /\ Attached(call.el))
    => LET path == call.result.path
           d == Crossings(call.el)
           pieces == split(call.result.playwright, S_arrow)
       IN /\ Len(path) = 2 * d + 1
          /\ \A i \in DOMAIN path : path[i].isShadowBoundary <=> i % 2 = 0
          /\ Len(pieces) = d + 1
          /\ \A i \in DOMAIN pieces : pieces[i] # <<>>

\* the shadow hosts on n's ownership chain, outermost first
RECURSIVE HostChain(_)
HostChain(n) ==
  IF dom[Top(n)].host = 0 THEN <<>>
  ELSE Append(HostChain(dom[Top(n)].host), dom[Top(n)].host)

\* tag and id, else tag and first data-* attribute, else tag and first class,
\* else the tag
HostFragment(h) ==
  LET tag == lowerTag(h)
      data == SelectSeq(dom[h].attrs, LAMBDA a : startsWith(a.name, <<"d", "a", "t", "a", "-">>))
      classes == SelectSeq(splitWs(dom[h].className), LAMBDA c : c # <<>>)
  IN IF dom[h].id # <<>> THEN tag \o <<"#">> \o CssEscape(dom[h].id)
     ELSE IF data # <<>>
       THEN tag \o <<"[">> \o data[1].name \o <<"=", Quote>> \o CssEscape(data[1].value)
                \o <<Quote, "]">>
     ELSE IF classes # <<>> THEN tag \o <<".">> \o CssEscape(classes[1])
     ELSE tag

\* C25: the k-th boundary segment of a path carries the fragment of the k-th
\* outermost shadow host on el's ownership chain, chosen without a uniqueness
\* probe: the id if the host has one, else its first data-* attribute in
\* declaration order, else its first class, else the bare tag.
C25_BoundaryIsHost ==
  call.op = "getPiercingSelector"
    => LET boundaries == SelectSeq(call.result.path, LAMBDA p : p.isShadowBoundary)
           hosts == HostChain(call.el)
       IN /\ Len(boundaries) = Len(hosts)
          /\ \A k \in DOMAIN hosts : boundaries[k].selector = HostFragment(hosts[k])

C25_Witness ==
  /\ call.op = "getPiercingSelector"
  /\ call.el = 5
  /\ dom[3].id = <<>> /\ Len(dom[3].attrs) = 3 /\ dom[3].className # <<>>
  /\ dom[4].id = <<>> /\ dom[4].attrs = <<>> /\ dom[4].className = <<"p", "p", "-", "x", " ", "c">>
  /\ call.result.path[2].selector
       = <<"x", "-", "a", "[", "d", "a", "t", "a", "-", "u", "=", Quote, "w", "\\", " ", "z", Quote, "]">>
  /\ call.result.path[4].selector = <<"x", "-", "a", ".", "p", "p", "-", "x">>

\* the elements of el's tag under el's parent, an element or a shadow root,
\* in tree order; only el when it has no parent
SameTagSiblings(el) ==
  SelectSeq([i \in 1..Len(dom) |-> i],
            LAMBDA n : /\ dom[n].tagName = dom[el].tagName
                       /\ \/ n = el
                          \/ /\ dom[n].parent = dom[el].parent /\ dom[n].host = dom[el].host
                             /\ dom[el].parent # 0 \/ dom[el].host # 0)

\* C26: the structural fallback of the local resolver is 'tag:nth-of-type(k)',
\* k the 1-based position among the same-tag siblings, whenever the element has
\* another sibling of its tag under the same parent, a shadow root included,
\* and the bare tag only when it is the only one of its tag there or has no
\* parent.
C26_StructuralFragment ==
  (call.op = "getLocalSelector" /\ call.tier = "structural")
    => LET siblings == SameTagSiblings(call.el) IN
       call.result
         = IF Len(siblings) = 1 THEN lowerTag(call.el)
           ELSE lowerTag(call.el) \o <<":", "n", "t", "h", "-", "o", "f", "-", "t", "y", "p", "e", "(">>
                  \o IntToStr(CHOOSE k \in DOMAIN siblings : siblings[k] = call.el) \o <<")">>

\* C27: in the ARIA tier and in the class tier each resolver, light-DOM and
\* local, tries the bare form first and the form prefixed with the lowercase
\* tag only if the bare one is not unique, so a tag-prefixed result means the
\* bare form is not unique, and a result of a later tier means that neither
\* form of any ARIA attribute is unique.
C27_BareBeforeTagged ==
  (call.op \in {"getLightDOMSelector", "getLocalSelector"})
    => LET root == IF call.op = "getLocalSelector" THEN call.root ELSE Document
           tag == lowerTag(call.el)
           aria == AriaAttributes(call.el, IF call.op = "getLocalSelector"
                                             THEN ARIA_ATTRS_PIERCE ELSE ARIA_ATTRIBUTES)
       IN /\ (call.tier \in {"aria", "class"} /\ startsWith(call.result, tag))
               => ~UniqueIn(root, SubSeq(call.result, Len(tag) + 1, Len(call.result)))
          /\ call.tier \in {"class", "text", "anchor", "structural"}
               => \A i \in DOMAIN aria :
                    ~UniqueIn(root, tag \o <<"[">> \o aria[i].name \o <<"=", Quote>>
                                      \o CssEscape(aria[i].value) \o <<Quote, "]">>)

\* the parentElement chain of n, nearest first
RECURSIVE ParentChain(_)
ParentChain(n) == IF dom[n].parent = 0 THEN <<>> ELSE <<dom[n].parent>> \o ParentChain(dom[n].parent)

\* n and its parentElement chain up to the first element with an id, included,
\* or to document.body, excluded
RECURSIVE ChainToId(_)
ChainToId(n) ==
  IF n = 0 \/ n = BODY THEN <<>>
  ELSE IF dom[n].id # <<>> THEN <<n>>
  ELSE <<n>> \o ChainToId(dom[n].parent)

C29_UniqueIsTarget ==
  (call.op = "getLightDOMSelector" /\ call.tier # "structural")
    => LET r == querySelectorAll(Document, call.result) IN
       ~r.threw /\ r.list = <<call.el>>

\* C30: after any sequence of facade calls interleaved with DOM changes the two
\* memoized entry points agree for every element: what getOptimalSelector(el)
\* returns equals the playwright field of what getAllSelectorFormats(el)
\* returns.
C30_EntryPointsAgree ==
  \A el \in Nodes :
    LET optimal == IF SelectorHit(selectorCache[el]) THEN selectorCache[el].value
                   ELSE ComputeSelector(el)
        formats == IF FormatHit(formatCache[el]) THEN formatCache[el].value
                   ELSE ComputeFormats(el)
    IN optimal = formats.playwright

\* every ' >> ' piece of the selector is a selector querySelectorAll accepts
WellFormed(selector) ==
  LET pieces == split(selector, S_arrow) IN
  \A i \in DOMAIN pieces : ParseSelector(trim(pieces[i])).ok

\* C31: for every root and every well-formed ' >> ' selector the two deep
\* queries agree: queryDeep is null exactly when queryDeepAll is empty, and
\* otherwise queryDeep is the first element of queryDeepAll.
C31_DeepQueriesAgree ==
  (call.op = "queryDeepAll" /\ WellFormed(call.selector))
    => /\ ~call.result.threw
       /\ queryDeep(call.root, call.selector)
            = IF call.result.list = <<>> THEN 0 ELSE call.result.list[1]

\* C34: in every state reachable by ACTIVATE and DEACTIVATE messages and
\* context invalidations S.isActive is true exactly when the mousemove, click
\* and keydown capture listeners are registered; init on an active engine and
\* destroy on an inactive one change nothing.
C34_ActiveIffListening ==
  /\ [](S.isActive <=> S.listeners)
  /\ [][(\/ OnMessage("ACTIVATE") /\ S.isActive
         \/ OnMessage("DEACTIVATE") /\ ~S.isActive) => UNCHANGED vars]_vars

C34_Witness ==
  /\ S.isActive /\ S.listeners
  /\ S.rafQueue = 2

\* C35: while the detail panel is open the hover tooltip stays hidden, and a
\* mousemove event or a frame callback changes neither S.hoveredElement nor
\* the overlay, under every interleaving of mousemove events, frame callbacks
\* and Alt-clicks.
C35_PanelFreezesHover ==
  /\ [](S.isDetailPanelOpen => S.tooltipDisplay = "none")
  /\ [][(/\ S.isDetailPanelOpen /\ S.contextValid
         /\ \/ ProcessMouseMove
            \/ \E target \in EventTargets, altKey \in BOOLEAN : HandleMouseMove(target, altKey))
        => /\ S'.hoveredElement = S.hoveredElement
           /\ S'.overlayOpacity = S.overlayOpacity]_vars

\* the element k parents above n
RECURSIVE ParentsAbove(_, _)
ParentsAbove(n, k) == IF k = 0 THEN n ELSE ParentsAbove(dom[n].parent, k - 1)

\* C38: with the DOM unchanged since the capture, handleCrumbClick(i) sets
\* S.capturedElement to the element length - 1 - i parents above
\* S.originalCapturedElement and S.activeCrumbIndex to i, and leaves
\* S.originalCapturedElement unchanged, whatever crumbs were clicked before.
C38_CrumbSelectsAncestor ==
  [][\A index \in 0..(S.crumbCount - 1) :
       (domChanges = 0 /\ HandleCrumbClick(index))
         => /\ S'.capturedElement
                 = ParentsAbove(S.originalCapturedElement, S.crumbCount - 1 - index)
            /\ S'.activeCrumbIndex = index
            /\ S'.originalCapturedElement = S.originalCapturedElement]_vars

C38_Witness ==
  /\ domChanges = 0
  /\ S.isDetailPanelOpen /\ S.crumbCount = 2 /\ S.activeCrumbIndex = 0
  /\ S.capturedElement = dom[S.originalCapturedElement].parent
  /\ S.capturedElement # S.originalCapturedElement

\* C36: while the extension context stays valid, once MAX_RECONNECT_ATTEMPTS
\* consecutive keepalive connections of a content script have each ended in a
\* disconnect, no connectToBackground call is scheduled any more.
C36_ReconnectBounded ==
  \A t \in Tabs : tab[t].ended >= MAX_RECONNECT_ATTEMPTS => ~tab[t].timer

\* the icon-click handlers of tab t that are past acquireLock
ClickHandlers(t) == {h \in handlers : h.kind = "onClicked" /\ h.tab = t}

\* C33: for each tab at most one icon-click handler is past acquireLock at any
\* time and the tab is in processingTabs only while one is; a click on a page
\* that is not restricted, arriving while a handler is in progress, changes
\* nothing (on a restricted page the click shows the error badge before the
\* lock is tried); and a click on such a page with no handler in progress is
\* processed: it takes the lock.
C33_PerTabLock ==
  /\ [](\A t \in Tabs : /\ Cardinality(ClickHandlers(t)) <= 1
                        /\ ClickHandlers(t) = {} => t \notin processingTabs)
  /\ [][\A t \in Tabs :
          (~isRestrictedUrl(t) /\ Click(t))
            => IF ClickHandlers(t) # {} THEN UNCHANGED vars
               ELSE t \in processingTabs' /\ ClickHandlers(t)' # {}]_vars

\* C33 as stated: every click that arrives while a handler is in progress
\* returns without changing any state.
C33_AsStated ==
  /\ [](\A t \in Tabs : /\ Cardinality(ClickHandlers(t)) <= 1
                        /\ ClickHandlers(t) = {} => t \notin processingTabs)
  /\ [][\A t \in Tabs : (ClickHandlers(t) # {} /\ Click(t)) => UNCHANGED vars]_vars

C33_Witness ==
  \E t \in Tabs : \E h \in ClickHandlers(t) :
    h.pc = "catch.removeTabState" /\ t \in processingTabs /\ tab[t].badge = "X"

\* C37: whenever no icon-click handler is in progress for a tab, the tab is in
\* activeTabs only if a keepalive port for it is registered in connectedPorts.
C37_ActiveTabsHavePorts ==
  \A t \in Tabs : (ClickHandlers(t) = {} /\ t \in activeTabs) => t \in connectedPorts

\* C32: an icon-click handler that runs to completion on a tab whose content
\* script is loaded throughout sends DEACTIVATE and leaves the tab out of
\* activeTabs with the badge cleared if inspection was active at the click
\* (tab in activeTabs, content S.isActive), and sends ACTIVATE and leaves the
\* tab in activeTabs with badge 'ON' if it was inactive.
C32_IconClickToggles ==
  [][\A t \in Tabs : \A h \in ClickHandlers(t) :
       ClickHandlers(t)' = {}
         => /\ h.pre = "active"
                 => h.sent = "DEACTIVATE" /\ t \notin activeTabs' /\ tab'[t].badge = ""
            /\ h.pre = "inactive"
                 => h.sent = "ACTIVATE" /\ t \in activeTabs' /\ tab'[t].badge = "ON"]_vars

====
